---------------------------- MODULE Spec2Model ----------------------------
(***************************************************************************)
(* A model of scmanager-windows-rs: a typed facade over the Windows        *)
(* Service Control Manager.                                                *)
(*                                                                         *)
(*   error.rs            the seven error families and their code tables    *)
(*   service.rs          ServiceHandle: query, update, delete, control     *)
(*   service_manager.rs  ServiceManager: new, create/get/create_or_get     *)
(*   common.rs           get_last_error, set_privilege                     *)
(*                                                                         *)
(* The operating system is the environment.  Each Win32 primitive the      *)
(* facade calls is an operator on a "world" record                         *)
(*      [db, h, le, priv, calls]                                           *)
(* (service database, handle table, thread last-error, process privilege,  *)
(* trace of the calls made by the running operation).  A handler is an     *)
(* operator from a world and its inputs to [w, r]: the world it leaves     *)
(* and the Result it returns.  Every OS call takes a fault argument f:     *)
(* 0 lets the call behave as the database dictates, any other value is     *)
(* the error code the OS fails the call with.                              *)
(***************************************************************************)
EXTENDS Integers, Sequences, FiniteSets, TLC

-----------------------------------------------------------------------------
(* Win32 error codes used by error.rs and service.rs *)
ERROR_ACCESS_DENIED == 5
ERROR_INVALID_HANDLE == 6
ERROR_FILE_NOT_FOUND == 2
ERROR_PATH_NOT_FOUND == 3
ERROR_INVALID_PARAMETER == 87
ERROR_INSUFFICIENT_BUFFER == 122
ERROR_INVALID_NAME == 123
ERROR_SERVICE_REQUEST_TIMEOUT == 1053
ERROR_SERVICE_NO_THREAD == 1054
ERROR_SERVICE_DATABASE_LOCKED == 1055
ERROR_SERVICE_ALREADY_RUNNING == 1056
ERROR_INVALID_SERVICE_ACCOUNT == 1057
ERROR_SERVICE_DISABLED == 1058
ERROR_CIRCULAR_DEPENDENCY == 1059
ERROR_SERVICE_DOES_NOT_EXIST == 1060
ERROR_SERVICE_NOT_ACTIVE == 1062
ERROR_DATABASE_DOES_NOT_EXIST == 1065
ERROR_SERVICE_DEPENDENCY_FAIL == 1068
ERROR_SERVICE_LOGON_FAILED == 1069
ERROR_SERVICE_MARKED_FOR_DELETE == 1072
ERROR_SERVICE_EXISTS == 1073
ERROR_SERVICE_DEPENDENCY_DELETED == 1075
ERROR_DUPLICATE_SERVICE_NAME == 1078
(* codes the OS model produces that no table of error.rs lists *)
ERROR_SERVICE_CANNOT_ACCEPT_CTRL == 1061
ERROR_NOT_ALL_ASSIGNED == 1300
ERROR_GEN_FAILURE == 31

(* service.rs: numeric encodings of the enums (the OS ABI) *)
SERVICE_KERNEL_DRIVER == 1
SERVICE_FILE_SYSTEM_DRIVER == 2
SERVICE_ADAPTER == 4
SERVICE_RECOGNIZER_DRIVER == 8
SERVICE_WIN32_OWN_PROCESS == 16
SERVICE_WIN32_SHARE_PROCESS == 32

SERVICE_BOOT_START == 0
SERVICE_SYSTEM_START == 1
SERVICE_AUTO_START == 2
SERVICE_DEMAND_START == 3
SERVICE_DISABLED == 4

SERVICE_ERROR_IGNORE == 0
SERVICE_ERROR_NORMAL == 1
SERVICE_ERROR_SEVERE == 2
SERVICE_ERROR_CRITICAL == 3

SERVICE_STOPPED == 1
SERVICE_START_PENDING == 2
SERVICE_STOP_PENDING == 3
SERVICE_RUNNING == 4
SERVICE_CONTINUE_PENDING == 5
SERVICE_PAUSE_PENDING == 6
SERVICE_PAUSED == 7

SERVICE_CONTROL_STOP == 1
SERVICE_CONTROL_PAUSE == 2

-----------------------------------------------------------------------------
(* Results.  Ok(v) and Err(family, kind, code, ctx) share one record shape. *)
Ok(v) == [ok |-> TRUE, val |-> <<v>>, family |-> "", kind |-> "", code |-> 0, ctx |-> ""]

Err(family, kind, code, ctx) ==
    [ok |-> FALSE, val |-> <<>>, family |-> family, kind |-> kind, code |-> code, ctx |-> ctx]

Unit == "()"

(* Option<SC_HANDLE> *)
None == <<>>

Some(x) == <<x>>

-----------------------------------------------------------------------------
(* error.rs: impl From<(u32, String)> for each family *)
OpenServiceError_from(err, display) ==
    CASE err = ERROR_ACCESS_DENIED -> Err("OpenServiceError", "AccessDenied", err, display)
      [] err = ERROR_INVALID_HANDLE -> Err("OpenServiceError", "InvalidHandle", err, display)
      [] err = ERROR_INVALID_NAME -> Err("OpenServiceError", "InvalidName", err, display)
      [] err = ERROR_SERVICE_DOES_NOT_EXIST ->
            Err("OpenServiceError", "ServiceDoesNotExist", err, display)
      [] OTHER -> Err("OpenServiceError", "Unknown", err, display)

(* a CreateServiceError table without the row of ERROR_DUPLICATE_SERVICE_NAME *)
CreateServiceError_from_one_row(err, display) ==
    CASE err = ERROR_ACCESS_DENIED -> Err("CreateServiceError", "AccessDenied", err, display)
      [] err = ERROR_CIRCULAR_DEPENDENCY ->
            Err("CreateServiceError", "CircularDependency", err, display)
      [] err = ERROR_INVALID_HANDLE -> Err("CreateServiceError", "InvalidHandle", err, display)
      [] err = ERROR_INVALID_NAME -> Err("CreateServiceError", "InvalidName", err, display)
      [] err = ERROR_INVALID_PARAMETER ->
            Err("CreateServiceError", "InvalidParameter", err, display)
      [] err = ERROR_INVALID_SERVICE_ACCOUNT ->
            Err("CreateServiceError", "InvalidServiceAccount", err, display)
      [] err = ERROR_SERVICE_EXISTS -> Err("CreateServiceError", "ServiceExists", err, display)
      [] err = ERROR_SERVICE_MARKED_FOR_DELETE ->
            Err("CreateServiceError", "ServiceMarkedForDelete", err, display)
      [] OTHER -> Err("CreateServiceError", "Unknown", err, display)

CreateServiceError_from(err, display) ==
    CASE err = ERROR_ACCESS_DENIED -> Err("CreateServiceError", "AccessDenied", err, display)
      [] err = ERROR_CIRCULAR_DEPENDENCY ->
            Err("CreateServiceError", "CircularDependency", err, display)
      [] err = ERROR_DUPLICATE_SERVICE_NAME ->
            Err("CreateServiceError", "ServiceExists", err, display)
      [] err = ERROR_INVALID_HANDLE -> Err("CreateServiceError", "InvalidHandle", err, display)
      [] err = ERROR_INVALID_NAME -> Err("CreateServiceError", "InvalidName", err, display)
      [] err = ERROR_INVALID_PARAMETER ->
            Err("CreateServiceError", "InvalidParameter", err, display)
      [] err = ERROR_INVALID_SERVICE_ACCOUNT ->
            Err("CreateServiceError", "InvalidServiceAccount", err, display)
      [] err = ERROR_SERVICE_EXISTS -> Err("CreateServiceError", "ServiceExists", err, display)
      [] err = ERROR_SERVICE_MARKED_FOR_DELETE ->
            Err("CreateServiceError", "ServiceMarkedForDelete", err, display)
      [] OTHER -> Err("CreateServiceError", "Unknown", err, display)

ServiceManagerError_from(err, display) ==
    CASE err = ERROR_ACCESS_DENIED -> Err("ServiceManagerError", "AccessDenied", err, display)
      [] err = ERROR_DATABASE_DOES_NOT_EXIST ->
            Err("ServiceManagerError", "DatabaseDoesNotExist", err, display)
      [] err = ERROR_INVALID_HANDLE ->
            Err("ServiceManagerError", "DatabaseDoesNotExist", err, display)
      [] OTHER -> Err("ServiceManagerError", "Unknown", err, display)

ControlServiceError_from(err, display) ==
    CASE err = ERROR_ACCESS_DENIED -> Err("ControlServiceError", "AccessDenied", err, display)
      [] err = ERROR_INVALID_HANDLE -> Err("ControlServiceError", "InvalidHandle", err, display)
      [] err = ERROR_PATH_NOT_FOUND \/ err = ERROR_FILE_NOT_FOUND ->
            Err("ControlServiceError", "PathNotFound", err, display)
      [] err = ERROR_SERVICE_ALREADY_RUNNING ->
            Err("ControlServiceError", "ServiceAlreadyRunning", err, display)
      [] err = ERROR_SERVICE_NOT_ACTIVE ->
            Err("ControlServiceError", "ServiceNotActive", err, display)
      [] err = ERROR_SERVICE_DATABASE_LOCKED ->
            Err("ControlServiceError", "ServiceDatabaseLocked", err, display)
      [] err = ERROR_SERVICE_DEPENDENCY_DELETED ->
            Err("ControlServiceError", "ServiceDependencyDeleted", err, display)
      [] err = ERROR_SERVICE_DEPENDENCY_FAIL ->
            Err("ControlServiceError", "ServiceDependencyFail", err, display)
      [] err = ERROR_SERVICE_DISABLED ->
            Err("ControlServiceError", "ServiceDisabled", err, display)
      [] err = ERROR_SERVICE_LOGON_FAILED ->
            Err("ControlServiceError", "ServiceLogonFailed", err, display)
      [] err = ERROR_SERVICE_MARKED_FOR_DELETE ->
            Err("ControlServiceError", "ServiceMarkedForDelete", err, display)
      [] err = ERROR_SERVICE_NO_THREAD ->
            Err("ControlServiceError", "ServiceNoThread", err, display)
      [] err = ERROR_SERVICE_REQUEST_TIMEOUT ->
            Err("ControlServiceError", "ServiceRequestTimeout", err, display)
      [] OTHER -> Err("ControlServiceError", "Unknown", err, display)

DeleteServiceError_from(err, display) ==
    CASE err = ERROR_ACCESS_DENIED -> Err("DeleteServiceError", "AccessDenied", err, display)
      [] err = ERROR_SERVICE_MARKED_FOR_DELETE ->
            Err("DeleteServiceError", "ErrorServiceMarkedForDelete", err, display)
      [] err = ERROR_INVALID_HANDLE -> Err("DeleteServiceError", "InvalidHandle", err, display)
      [] OTHER -> Err("DeleteServiceError", "Unknown", err, display)

UpdateServiceError_from(err, display) ==
    CASE err = ERROR_ACCESS_DENIED -> Err("UpdateServiceError", "AccessDenied", err, display)
      [] err = ERROR_CIRCULAR_DEPENDENCY ->
            Err("UpdateServiceError", "CircularDependency", err, display)
      [] err = ERROR_DUPLICATE_SERVICE_NAME ->
            Err("UpdateServiceError", "DuplicateServiceName", err, display)
      [] err = ERROR_INVALID_HANDLE -> Err("UpdateServiceError", "InvalidHandle", err, display)
      [] err = ERROR_INVALID_PARAMETER ->
            Err("UpdateServiceError", "InvalidParameter", err, display)
      [] err = ERROR_INVALID_SERVICE_ACCOUNT ->
            Err("UpdateServiceError", "InvalidServiceAccount", err, display)
      [] err = ERROR_SERVICE_MARKED_FOR_DELETE ->
            Err("UpdateServiceError", "ServiceMarkedForDelete", err, display)
      [] OTHER -> Err("UpdateServiceError", "Unknown", err, display)

QueryServiceError_from(err, display) ==
    CASE err = ERROR_ACCESS_DENIED -> Err("QueryServiceError", "AccessDenied", err, display)
      [] err = ERROR_INVALID_HANDLE -> Err("QueryServiceError", "InvalidHandle", err, display)
      [] OTHER -> Err("QueryServiceError", "Unknown", err, display)

-----------------------------------------------------------------------------
(* service.rs: the enums, `as u32` and TryFrom<u32> *)
ServiceTypes ==
    {"Adapter", "FileSystemDriver", "KernelDriver", "RecognizerDriver",
     "Win32OwnProcess", "Win32ShareProcess"}

ServiceStartTypes == {"AutoStart", "BootStart", "DemandStart", "Disabled", "SystemStart"}

ServiceErrorControls == {"ErrorCritical", "ErrorIgnore", "ErrorNormal", "ErrorSevere"}

ServiceStates ==
    {"Stopped", "StartPending", "StopPending", "Running", "ContinuePending",
     "PausePending", "Paused"}

ServiceType_as_u32(t) ==
    CASE t = "Adapter" -> 4
      [] t = "FileSystemDriver" -> 2
      [] t = "KernelDriver" -> 1
      [] t = "RecognizerDriver" -> 8
      [] t = "Win32OwnProcess" -> 16
      [] t = "Win32ShareProcess" -> 32

ServiceStartType_as_u32(t) ==
    CASE t = "AutoStart" -> 2
      [] t = "BootStart" -> 0
      [] t = "DemandStart" -> 3
      [] t = "Disabled" -> 4
      [] t = "SystemStart" -> 1

ServiceErrorControl_as_u32(t) ==
    CASE t = "ErrorCritical" -> 3
      [] t = "ErrorIgnore" -> 0
      [] t = "ErrorNormal" -> 1
      [] t = "ErrorSevere" -> 2

ServiceState_as_u32(t) ==
    CASE t = "Stopped" -> 1
      [] t = "StartPending" -> 2
      [] t = "StopPending" -> 3
      [] t = "Running" -> 4
      [] t = "ContinuePending" -> 5
      [] t = "PausePending" -> 6
      [] t = "Paused" -> 7

ServiceType_default == "KernelDriver"

ServiceStartType_default == "DemandStart"

ServiceErrorControl_default == "ErrorNormal"

ServiceType_try_from(value) ==
    CASE value = SERVICE_ADAPTER -> Ok("Adapter")
      [] value = SERVICE_FILE_SYSTEM_DRIVER -> Ok("FileSystemDriver")
      [] value = SERVICE_KERNEL_DRIVER -> Ok("KernelDriver")
      [] value = SERVICE_RECOGNIZER_DRIVER -> Ok("RecognizerDriver")
      [] value = SERVICE_WIN32_OWN_PROCESS -> Ok("Win32OwnProcess")
      [] value = SERVICE_WIN32_SHARE_PROCESS -> Ok("Win32ShareProcess")
      [] OTHER -> QueryServiceError_from(0, "invalid service type")

(* a decoder of start types with two arms exchanged *)
ServiceStartType_try_from_swapped(value) ==
    CASE value = SERVICE_AUTO_START -> Ok("BootStart")
      [] value = SERVICE_BOOT_START -> Ok("AutoStart")
      [] value = SERVICE_DEMAND_START -> Ok("DemandStart")
      [] value = SERVICE_DISABLED -> Ok("Disabled")
      [] value = SERVICE_SYSTEM_START -> Ok("SystemStart")
      [] OTHER -> Err("QueryServiceError", "Unknown", 0, "invalid service start type")

ServiceStartType_try_from(value) ==
    CASE value = SERVICE_AUTO_START -> Ok("AutoStart")
      [] value = SERVICE_BOOT_START -> Ok("BootStart")
      [] value = SERVICE_DEMAND_START -> Ok("DemandStart")
      [] value = SERVICE_DISABLED -> Ok("Disabled")
      [] value = SERVICE_SYSTEM_START -> Ok("SystemStart")
      [] OTHER -> QueryServiceError_from(0, "invalid service start type")

ServiceState_try_from(value) ==
    CASE value = SERVICE_STOPPED -> Ok("Stopped")
      [] value = SERVICE_START_PENDING -> Ok("StartPending")
      [] value = SERVICE_STOP_PENDING -> Ok("StopPending")
      [] value = SERVICE_RUNNING -> Ok("Running")
      [] value = SERVICE_CONTINUE_PENDING -> Ok("ContinuePending")
      [] value = SERVICE_PAUSE_PENDING -> Ok("PausePending")
      [] value = SERVICE_PAUSED -> Ok("Paused")
      [] OTHER -> QueryServiceError_from(0, "invalid service state")

-----------------------------------------------------------------------------
(* Strings.  A Rust String is a sequence of characters drawn from          *)
(* {0, 1, 2}; 0 is NUL.  U16CString::from_str yields the 16-bit units      *)
(* followed by the terminator, or fails when the text holds a NUL.  The OS *)
(* reads a wide string up to its terminator.                               *)
NUL == 0

HasNul(s) == \E i \in 1..Len(s) : s[i] = NUL

U16CString_from_str(s) == IF HasNul(s) THEN Err("", "ContainsNul", 0, "") ELSE Ok(s \o <<NUL>>)

RECURSIVE WideToText(_)
WideToText(w) ==
    IF w = <<>> \/ Head(w) = NUL THEN <<>> ELSE <<Head(w)>> \o WideToText(Tail(w))

(* A pointer argument: NULL or the address of a value. *)
NULL == <<>>

Ptr(x) == <<x>>

-----------------------------------------------------------------------------
(* Bounds of the model *)
MaxHandles == 4

MaxPolls == 3

MaxLive == 1

(* The names the service database can hold *)
DbNames == {<<1>>, <<2>>}

HandleIds == 1..MaxHandles

(* A stored service configuration: what ChangeServiceConfigW / CreateServiceW  *)
(* write and QueryServiceConfigW reads.  Strings are stored as text.           *)
StringFields ==
    {"lpBinaryPathName", "lpLoadOrderGroup", "lpDependencies", "lpServiceStartName",
     "lpDisplayName"}

MkCfg(stype, start, errctl, path, group, tag, deps, account, pwd, display) ==
    [dwServiceType |-> stype, dwStartType |-> start, dwErrorControl |-> errctl,
     lpBinaryPathName |-> path, lpLoadOrderGroup |-> group, dwTagId |-> tag,
     lpDependencies |-> deps, lpServiceStartName |-> account, lpPassword |-> pwd,
     lpDisplayName |-> display]

NoCfg == MkCfg(0, 0, 0, <<>>, <<>>, 0, <<>>, <<>>, <<>>, <<>>)

Absent == [exists |-> FALSE, marked |-> FALSE, state |-> 0, cfg |-> NoCfg]

(* A handle the OS gave out: its kind ("scm", "svc", "token"), whether it is  *)
(* open, how often a close primitive was invoked on it, the service it names, *)
(* and the facade object holding it: "" none, "live", or "gone" (dropped).    *)
FreeHandle == [kind |-> "free", open |-> FALSE, closes |-> 0, name |-> <<>>, owner |-> ""]

NoArgs == [none |-> TRUE]

(* the trace of OS calls of the running operation *)
Log(w, api, code, hid, args) ==
    [w EXCEPT !.calls = Append(@, [api |-> api, code |-> code, h |-> hid, args |-> args])]

(* a failing call sets the thread's last-error value (read by get_last_error) *)
Fails(w, api, code, hid, args) ==
    [w |-> [Log(w, api, code, hid, args) EXCEPT !.le = code], ok |-> FALSE, out |-> 0]

Succeeds(w, api, hid, args, out) ==
    [w |-> Log(w, api, 0, hid, args), ok |-> TRUE, out |-> out]

FreeIds(h) == {i \in HandleIds : h[i].kind = "free"}

NewId(h) == CHOOSE i \in FreeIds(h) : \A j \in FreeIds(h) : i <= j

IsOpen(w, hid, kind) == hid \in HandleIds /\ w.h[hid].kind = kind /\ w.h[hid].open

Alloc(w, kind, name) ==
    [w EXCEPT !.h[NewId(w.h)] =
        [kind |-> kind, open |-> TRUE, closes |-> 0, name |-> name, owner |-> ""]]

(* common.rs: get_last_error *)
get_last_error(w) == w.le

-----------------------------------------------------------------------------
(* The Win32 primitives, as the facade calls them *)
OpenSCManagerW(w, f) ==
    IF f # 0 THEN Fails(w, "OpenSCManagerW", f, 0, NoArgs)
    ELSE Succeeds(Alloc(w, "scm", <<>>), "OpenSCManagerW", NewId(w.h), NoArgs, NewId(w.h))

OpenServiceW(w, scm, lpServiceName, f) ==
    LET name == WideToText(lpServiceName)
        args == [name |-> name]
    IN  IF f # 0 THEN Fails(w, "OpenServiceW", f, scm, args)
        ELSE IF ~IsOpen(w, scm, "scm") THEN
            Fails(w, "OpenServiceW", ERROR_INVALID_HANDLE, scm, args)
        ELSE IF name \notin DbNames \/ ~w.db[name].exists THEN
            Fails(w, "OpenServiceW", ERROR_SERVICE_DOES_NOT_EXIST, scm, args)
        ELSE Succeeds(Alloc(w, "svc", name), "OpenServiceW", scm, args, NewId(w.h))

(* a: [lpServiceName, lpDisplayName, dwServiceType, dwStartType, dwErrorControl, *)
(*     lpBinaryPathName]; the remaining pointers are NULL at the only call site  *)
CreateServiceW(w, scm, a, f) ==
    LET name == WideToText(a.lpServiceName)
        cfg == MkCfg(a.dwServiceType, a.dwStartType, a.dwErrorControl,
                     WideToText(a.lpBinaryPathName), <<>>, 0, <<>>, <<>>, <<>>,
                     WideToText(a.lpDisplayName))
        args == [name |-> name, cfg |-> cfg]
    IN  IF f # 0 THEN Fails(w, "CreateServiceW", f, scm, args)
        ELSE IF ~IsOpen(w, scm, "scm") THEN
            Fails(w, "CreateServiceW", ERROR_INVALID_HANDLE, scm, args)
        ELSE IF name \notin DbNames THEN
            Fails(w, "CreateServiceW", ERROR_INVALID_NAME, scm, args)
        ELSE IF w.db[name].exists /\ w.db[name].marked THEN
            Fails(w, "CreateServiceW", ERROR_SERVICE_MARKED_FOR_DELETE, scm, args)
        ELSE IF w.db[name].exists THEN
            Fails(w, "CreateServiceW", ERROR_SERVICE_EXISTS, scm, args)
        ELSE Succeeds(
                Alloc([w EXCEPT !.db[name] =
                          [exists |-> TRUE, marked |-> FALSE, state |-> SERVICE_STOPPED,
                           cfg |-> cfg]],
                      "svc", name),
                "CreateServiceW", scm, args, NewId(w.h))

OtherOpen(w, hid) ==
    {i \in HandleIds \ {hid} : w.h[i].kind = "svc" /\ w.h[i].open /\ w.h[i].name = w.h[hid].name}

(* The close is counted whether or not it succeeds.  A service marked for     *)
(* deletion leaves the database when it is stopped and its last handle closes. *)
CloseServiceHandle(w, hid) ==
    LET counted == [w EXCEPT !.h[hid].closes = @ + 1]
        closed == [counted EXCEPT !.h[hid].open = FALSE]
        name == w.h[hid].name
        gone == /\ w.h[hid].kind = "svc"
                /\ w.db[name].exists
                /\ w.db[name].marked
                /\ w.db[name].state = SERVICE_STOPPED
                /\ OtherOpen(w, hid) = {}
    IN  IF ~w.h[hid].open THEN
            Fails(counted, "CloseServiceHandle", ERROR_INVALID_HANDLE, hid, NoArgs)
        ELSE Succeeds(IF gone THEN [closed EXCEPT !.db[name] = Absent] ELSE closed,
                      "CloseServiceHandle", hid, NoArgs, 1)

(* raw # 0: the status record comes back with that integer in dwCurrentState *)
QueryServiceStatus(w, hid, f, raw) ==
    IF f # 0 THEN Fails(w, "QueryServiceStatus", f, hid, NoArgs)
    ELSE IF ~IsOpen(w, hid, "svc") THEN
        Fails(w, "QueryServiceStatus", ERROR_INVALID_HANDLE, hid, NoArgs)
    ELSE Succeeds(w, "QueryServiceStatus", hid, NoArgs,
                  [dwCurrentState |-> IF raw # 0 THEN raw ELSE w.db[w.h[hid].name].state])

(* bytes of a QUERY_SERVICE_CONFIGW record: the fixed header and the five  *)
(* in-buffer wide strings, each with its terminator                         *)
ConfigHeaderBytes == 36

ConfigBytes(cfg) ==
    ConfigHeaderBytes
    + 2 * ( Len(cfg.lpBinaryPathName) + Len(cfg.lpLoadOrderGroup) + Len(cfg.lpDependencies)
          + Len(cfg.lpServiceStartName) + Len(cfg.lpDisplayName) + 5 )

(* cbBufSize = 0 with a null buffer is the sizing call.  out: the bytes     *)
(* needed and, on success, the record written to the buffer.                *)
QueryServiceConfigW(w, hid, cbBufSize, f) ==
    LET args == [cbBufSize |-> cbBufSize]
        cfg == w.db[w.h[hid].name].cfg
        none == [bytes_needed |-> 0, config |-> NoCfg]
    IN  IF f # 0 THEN
            [Fails(w, "QueryServiceConfigW", f, hid, args) EXCEPT !.out = none]
        ELSE IF ~IsOpen(w, hid, "svc") THEN
            [Fails(w, "QueryServiceConfigW", ERROR_INVALID_HANDLE, hid, args)
                EXCEPT !.out = none]
        ELSE IF cbBufSize < ConfigBytes(cfg) THEN
            [Fails(w, "QueryServiceConfigW", ERROR_INSUFFICIENT_BUFFER, hid, args)
                EXCEPT !.out = [bytes_needed |-> ConfigBytes(cfg), config |-> NoCfg]]
        ELSE Succeeds(w, "QueryServiceConfigW", hid, args,
                      [bytes_needed |-> ConfigBytes(cfg), config |-> cfg])

(* a: the ten configuration arguments; a pointer is NULL (no change) or     *)
(* Ptr(value).  The call record keeps the arguments as the OS read them.    *)
Written(old, p) == IF p = NULL THEN old ELSE WideToText(p[1])

ChangeServiceConfigW(w, hid, a, f) ==
    LET name == w.h[hid].name
        old == w.db[name].cfg
        new == MkCfg(a.dwServiceType, a.dwStartType, a.dwErrorControl,
                     Written(old.lpBinaryPathName, a.lpBinaryPathName),
                     Written(old.lpLoadOrderGroup, a.lpLoadOrderGroup),
                     IF a.lpdwTagId = NULL THEN old.dwTagId ELSE a.lpdwTagId[1],
                     Written(old.lpDependencies, a.lpDependencies),
                     Written(old.lpServiceStartName, a.lpServiceStartName),
                     Written(old.lpPassword, a.lpPassword),
                     Written(old.lpDisplayName, a.lpDisplayName))
    IN  IF f # 0 THEN Fails(w, "ChangeServiceConfigW", f, hid, a)
        ELSE IF ~IsOpen(w, hid, "svc") THEN
            Fails(w, "ChangeServiceConfigW", ERROR_INVALID_HANDLE, hid, a)
        ELSE IF w.db[name].marked THEN
            Fails(w, "ChangeServiceConfigW", ERROR_SERVICE_MARKED_FOR_DELETE, hid, a)
        ELSE Succeeds([w EXCEPT !.db[name].cfg = new], "ChangeServiceConfigW", hid, a, 1)

DeleteService(w, hid, f) ==
    LET name == w.h[hid].name
    IN  IF f # 0 THEN Fails(w, "DeleteService", f, hid, NoArgs)
        ELSE IF ~IsOpen(w, hid, "svc") THEN
            Fails(w, "DeleteService", ERROR_INVALID_HANDLE, hid, NoArgs)
        ELSE IF w.db[name].marked THEN
            Fails(w, "DeleteService", ERROR_SERVICE_MARKED_FOR_DELETE, hid, NoArgs)
        ELSE Succeeds([w EXCEPT !.db[name].marked = TRUE], "DeleteService", hid, NoArgs, 1)

StartServiceW(w, hid, f) ==
    LET name == w.h[hid].name
        svc == w.db[name]
    IN  IF f # 0 THEN Fails(w, "StartServiceW", f, hid, NoArgs)
        ELSE IF ~IsOpen(w, hid, "svc") THEN
            Fails(w, "StartServiceW", ERROR_INVALID_HANDLE, hid, NoArgs)
        ELSE IF svc.marked THEN
            Fails(w, "StartServiceW", ERROR_SERVICE_MARKED_FOR_DELETE, hid, NoArgs)
        ELSE IF svc.cfg.dwStartType = SERVICE_DISABLED THEN
            Fails(w, "StartServiceW", ERROR_SERVICE_DISABLED, hid, NoArgs)
        ELSE IF svc.state # SERVICE_STOPPED THEN
            Fails(w, "StartServiceW", ERROR_SERVICE_ALREADY_RUNNING, hid, NoArgs)
        ELSE Succeeds([w EXCEPT !.db[name].state = SERVICE_START_PENDING],
                      "StartServiceW", hid, NoArgs, 1)

ControlService(w, hid, control, f) ==
    LET name == w.h[hid].name
        st == w.db[name].state
        args == [control |-> control]
        accepts == IF control = SERVICE_CONTROL_STOP
                   THEN st \in {SERVICE_RUNNING, SERVICE_PAUSED}
                   ELSE st = SERVICE_RUNNING
        next == IF control = SERVICE_CONTROL_STOP THEN SERVICE_STOP_PENDING
                ELSE SERVICE_PAUSE_PENDING
    IN  IF f # 0 THEN Fails(w, "ControlService", f, hid, args)
        ELSE IF ~IsOpen(w, hid, "svc") THEN
            Fails(w, "ControlService", ERROR_INVALID_HANDLE, hid, args)
        ELSE IF st = SERVICE_STOPPED THEN
            Fails(w, "ControlService", ERROR_SERVICE_NOT_ACTIVE, hid, args)
        ELSE IF ~accepts THEN
            Fails(w, "ControlService", ERROR_SERVICE_CANNOT_ACCEPT_CTRL, hid, args)
        ELSE Succeeds([w EXCEPT !.db[name].state = next], "ControlService", hid, args, 1)

OpenProcessToken(w, f) ==
    IF f # 0 THEN Fails(w, "OpenProcessToken", f, 0, NoArgs)
    ELSE Succeeds(Alloc(w, "token", <<>>), "OpenProcessToken", NewId(w.h), NoArgs, NewId(w.h))

LookupPrivilegeValueW(w, f) ==
    IF f # 0 THEN Fails(w, "LookupPrivilegeValueW", f, 0, NoArgs)
    ELSE Succeeds(w, "LookupPrivilegeValueW", 0, NoArgs, 1)

(* f = ERROR_NOT_ALL_ASSIGNED: the call returns nonzero, assigns nothing and  *)
(* leaves that code as the last error                                          *)
AdjustTokenPrivileges(w, token, f) ==
    IF f = ERROR_NOT_ALL_ASSIGNED THEN
        Succeeds([w EXCEPT !.le = ERROR_NOT_ALL_ASSIGNED], "AdjustTokenPrivileges", token,
                 NoArgs, 1)
    ELSE IF f # 0 THEN Fails(w, "AdjustTokenPrivileges", f, token, NoArgs)
    ELSE Succeeds([w EXCEPT !.priv = TRUE], "AdjustTokenPrivileges", token, NoArgs, 1)

CloseHandle(w, hid) ==
    Succeeds([w EXCEPT !.h[hid].closes = @ + 1, !.h[hid].open = FALSE],
             "CloseHandle", hid, NoArgs, 1)

Sleep(w, ms) == Log(w, "sleep", 0, 0, [ms |-> ms])

-----------------------------------------------------------------------------
(* a set_privilege that closes the token by hand, on the success path only *)
set_privilege_closes_on_success(w, f) ==
    LET o1 == OpenProcessToken(w, f[1])
        token_handle == o1.out
        o2 == LookupPrivilegeValueW(o1.w, f[2])
        o3 == AdjustTokenPrivileges(o2.w, token_handle, f[3])
    IN  IF ~o1.ok THEN [w |-> o1.w, r |-> Err("String", "OpenProcessToken failed", 0, "")]
        ELSE IF ~o2.ok THEN
            [w |-> o2.w, r |-> Err("String", "LookupPrivilegeValueA failed", 0, "")]
        ELSE IF ~o3.ok THEN
            [w |-> o3.w, r |-> Err("String", "AdjustTokenPrivileges failed", 0, "")]
        ELSE [w |-> CloseHandle(o3.w, token_handle).w, r |-> Ok(Unit)]

(* common.rs: set_privilege.  f: the faults of its three calls.  The token  *)
(* handle is closed by the deferred CloseHandle when the block is left.     *)
set_privilege(w, f) ==
    LET o1 == OpenProcessToken(w, f[1])
        token_handle == o1.out
        o2 == LookupPrivilegeValueW(o1.w, f[2])
        o3 == AdjustTokenPrivileges(o2.w, token_handle, f[3])
    IN  IF ~o1.ok THEN [w |-> o1.w, r |-> Err("String", "OpenProcessToken failed", 0, "")]
        ELSE IF ~o2.ok THEN
            [w |-> CloseHandle(o2.w, token_handle).w,
             r |-> Err("String", "LookupPrivilegeValueA failed", 0, "")]
        ELSE IF ~o3.ok THEN
            [w |-> CloseHandle(o3.w, token_handle).w,
             r |-> Err("String", "AdjustTokenPrivileges failed", 0, "")]
        ELSE [w |-> CloseHandle(o3.w, token_handle).w, r |-> Ok(Unit)]

(* service_manager.rs: ServiceManager::new.  f: the fault of OpenSCManagerW *)
(* followed by the three of set_privilege.  On Ok the value is the handle   *)
(* slot of the new manager.                                                 *)
ServiceManager_new(w, f) ==
    LET o == OpenSCManagerW(w, f[1])
        handle == o.out
        p == set_privilege(o.w, SubSeq(f, 2, 4))
    IN  IF ~o.ok THEN
            [w |-> o.w,
             r |-> ServiceManagerError_from(get_last_error(o.w),
                                            "[ServiceManager::new] handle == 0")]
        ELSE IF ~p.r.ok THEN
            [w |-> p.w,
             r |-> Err("ServiceManagerError", "AccessDenied", get_last_error(p.w),
                       "[ServiceManager::set_privilege] failed")]
        ELSE [w |-> p.w, r |-> Ok(Some(handle))]

(* service.rs: ServiceHandle::new *)
ServiceHandle_new(handle) == Some(handle)

(* a Drop that forgets the close *)
drop_leaks(w, slot) == w

(* service.rs / service_manager.rs: impl Drop for ServiceHandle and for     *)
(* ServiceManager (the same body)                                           *)
drop(w, slot) == IF slot # None THEN CloseServiceHandle(w, slot[1]).w ELSE w

(* service_manager.rs: ServiceManager::create_service *)
create_service(w, slot, options, f) ==
    LET service_name == U16CString_from_str(options.service_name)
        display_name == U16CString_from_str(options.display_name)
        binary_path == U16CString_from_str(options.binary_path)
        o == CreateServiceW(w, slot[1],
                 [lpServiceName |-> service_name.val[1],
                  lpDisplayName |-> display_name.val[1],
                  dwServiceType |-> ServiceType_as_u32(options.service_type),
                  dwStartType |-> ServiceStartType_as_u32(options.start_type),
                  dwErrorControl |-> ServiceErrorControl_as_u32(options.error_control),
                  lpBinaryPathName |-> binary_path.val[1]], f)
    IN  IF slot = None THEN
            [w |-> w,
             r |-> Err("CreateServiceError", "InvalidHandle", get_last_error(w),
                       "[create_service] invalid service manager handle")]
        ELSE IF ~service_name.ok THEN
            [w |-> w,
             r |-> Err("CreateServiceError", "InvalidName", 0,
                       "[create_service] invalid service name")]
        ELSE IF ~display_name.ok THEN
            [w |-> w,
             r |-> Err("CreateServiceError", "InvalidName", 0,
                       "[create_service] invalid display name")]
        ELSE IF ~binary_path.ok THEN
            [w |-> w,
             r |-> Err("CreateServiceError", "InvalidParameter", 0,
                       "[create_service] invalid binary path")]
        ELSE IF ~o.ok THEN
            [w |-> o.w,
             r |-> CreateServiceError_from(get_last_error(o.w), "[create_service] handle == 0")]
        ELSE [w |-> o.w, r |-> Ok(ServiceHandle_new(o.out))]

(* service_manager.rs: ServiceManager::get_service *)
get_service(w, slot, name, f) ==
    LET service_name == U16CString_from_str(name)
        o == OpenServiceW(w, slot[1], service_name.val[1], f)
    IN  IF slot = None THEN
            [w |-> w,
             r |-> Err("OpenServiceError", "InvalidHandle", get_last_error(w),
                       "[get_service] invalid service manager handle")]
        ELSE IF ~service_name.ok THEN
            [w |-> w, r |-> Err("OpenServiceError", "InvalidName", 0, "invalid service named")]
        ELSE IF ~o.ok THEN
            [w |-> o.w,
             r |-> OpenServiceError_from(get_last_error(o.w), "[get_service] handle == 0")]
        ELSE [w |-> o.w, r |-> Ok(ServiceHandle_new(o.out))]

(* a create_or_get that creates first and opens when the create fails *)
create_or_get_create_first(w, slot, options, f) ==
    LET c == create_service(w, slot, options, f[2])
    IN  IF c.r.ok THEN c ELSE get_service(c.w, slot, options.service_name, f[1])

(* service_manager.rs: ServiceManager::create_or_get.  f: the faults of the *)
(* open and of the create.                                                  *)
create_or_get(w, slot, options, f) ==
    LET g == get_service(w, slot, options.service_name, f[1])
    IN  IF g.r.ok THEN g ELSE create_service(g.w, slot, options, f[2])

-----------------------------------------------------------------------------
(* a get_status that hands whatever the slot holds to the OS *)
get_status_unchecked(w, slot, f, raw) ==
    LET o == QueryServiceStatus(w, IF slot = None THEN 0 ELSE slot[1], f, raw)
    IN  IF ~o.ok THEN
            [w |-> o.w,
             r |-> QueryServiceError_from(get_last_error(o.w),
                                          "[get_status] QueryServiceConfig failed")]
        ELSE [w |-> o.w, r |-> Ok(o.out)]

(* service.rs: ServiceHandle::get_status *)
get_status(w, slot, f, raw) ==
    LET o == QueryServiceStatus(w, slot[1], f, raw)
    IN  IF slot = None THEN
            [w |-> w,
             r |-> Err("QueryServiceError", "InvalidHandle", 0,
                       "[get_status] invalid service handle")]
        ELSE IF ~o.ok THEN
            [w |-> o.w,
             r |-> QueryServiceError_from(get_last_error(o.w),
                                          "[get_status] QueryServiceConfig failed")]
        ELSE [w |-> o.w, r |-> Ok(o.out)]

(* service.rs: ServiceHandle::state *)
state(w, slot, f, raw) ==
    LET status == get_status(w, slot, f, raw)
    IN  IF ~status.r.ok THEN status
        ELSE [w |-> status.w, r |-> ServiceState_try_from(status.r.val[1].dwCurrentState)]

(* an update_config that also writes an empty load-order group *)
update_config_clears_group(w, slot, options, f) ==
    LET display_name == U16CString_from_str(options.display_name)
        binary_path == U16CString_from_str(options.binary_path)
        o == ChangeServiceConfigW(w, slot[1],
                 [dwServiceType |-> ServiceType_as_u32(options.service_type),
                  dwStartType |-> ServiceStartType_as_u32(options.start_type),
                  dwErrorControl |-> ServiceErrorControl_as_u32(options.error_control),
                  lpBinaryPathName |-> Ptr(binary_path.val[1]),
                  lpLoadOrderGroup |-> Ptr(<<NUL>>),
                  lpdwTagId |-> NULL,
                  lpDependencies |-> NULL,
                  lpServiceStartName |-> NULL,
                  lpPassword |-> NULL,
                  lpDisplayName |-> Ptr(display_name.val[1])], f)
    IN  IF slot = None \/ ~display_name.ok \/ ~binary_path.ok THEN
            [w |-> w, r |-> Err("UpdateServiceError", "InvalidParameter", 0, "")]
        ELSE IF ~o.ok THEN
            [w |-> o.w,
             r |-> UpdateServiceError_from(get_last_error(o.w), "[update_config] failed")]
        ELSE [w |-> o.w, r |-> Ok(Unit)]

(* service.rs: ServiceHandle::update_config *)
update_config(w, slot, options, f) ==
    LET display_name == U16CString_from_str(options.display_name)
        binary_path == U16CString_from_str(options.binary_path)
        o == ChangeServiceConfigW(w, slot[1],
                 [dwServiceType |-> ServiceType_as_u32(options.service_type),
                  dwStartType |-> ServiceStartType_as_u32(options.start_type),
                  dwErrorControl |-> ServiceErrorControl_as_u32(options.error_control),
                  lpBinaryPathName |-> Ptr(binary_path.val[1]),
                  lpLoadOrderGroup |-> NULL,
                  lpdwTagId |-> NULL,
                  lpDependencies |-> NULL,
                  lpServiceStartName |-> NULL,
                  lpPassword |-> NULL,
                  lpDisplayName |-> Ptr(display_name.val[1])], f)
    IN  IF slot = None THEN
            [w |-> w,
             r |-> Err("UpdateServiceError", "InvalidHandle", 0,
                       "[update_config] invalid service handle")]
        ELSE IF ~display_name.ok THEN
            [w |-> w,
             r |-> Err("UpdateServiceError", "InvalidParameter", 0,
                       "[update_config] invalid display_name")]
        ELSE IF ~binary_path.ok THEN
            [w |-> w,
             r |-> Err("UpdateServiceError", "InvalidParameter", 0,
                       "[update_config] invalid binary_path")]
        ELSE IF ~o.ok THEN
            [w |-> o.w,
             r |-> UpdateServiceError_from(get_last_error(o.w), "[update_config] failed")]
        ELSE [w |-> o.w, r |-> Ok(Unit)]

(* The QUERY_SERVICE_CONFIGW record get_config returns by value.  Its five  *)
(* string fields are pointers into config_buffer, the Vec that get_config   *)
(* allocated; `buffer` tells whether that Vec is still allocated.           *)
ConfigRecord(cfg, buffer) ==
    [dwServiceType |-> cfg.dwServiceType,
     dwStartType |-> cfg.dwStartType,
     dwErrorControl |-> cfg.dwErrorControl,
     dwTagId |-> cfg.dwTagId,
     lpBinaryPathName |-> cfg.lpBinaryPathName \o <<NUL>>,
     lpLoadOrderGroup |-> cfg.lpLoadOrderGroup \o <<NUL>>,
     lpDependencies |-> cfg.lpDependencies \o <<NUL>>,
     lpServiceStartName |-> cfg.lpServiceStartName \o <<NUL>>,
     lpDisplayName |-> cfg.lpDisplayName \o <<NUL>>,
     buffer |-> buffer]

(* config_buffer is a local of get_config: it is dropped when get_config    *)
(* returns, so the record leaves with its buffer freed.                     *)
BufferAtReturn == "freed"

(* a get_config whose second buffer is the fixed part of the record only *)
get_config_fixed_buffer(w, slot, f) ==
    LET o1 == QueryServiceConfigW(w, slot[1], 0, f[1])
        o2 == QueryServiceConfigW(o1.w, slot[1], ConfigHeaderBytes, f[2])
    IN  IF slot = None THEN
            [w |-> w,
             r |-> Err("QueryServiceError", "InvalidHandle", 0,
                       "[get_config] invalid service handle")]
        ELSE IF ~o1.ok /\ get_last_error(o1.w) # ERROR_INSUFFICIENT_BUFFER THEN
            [w |-> o1.w,
             r |-> QueryServiceError_from(get_last_error(o1.w),
                                          "[get_config] QueryServiceConfig failed")]
        ELSE IF ~o2.ok THEN
            [w |-> o2.w,
             r |-> QueryServiceError_from(get_last_error(o2.w),
                                          "[get_config] QueryServiceConfig failed")]
        ELSE [w |-> o2.w, r |-> Ok(ConfigRecord(o2.out.config, BufferAtReturn))]

(* service.rs: ServiceHandle::get_config.  f: the faults of the sizing call *)
(* and of the second call.                                                  *)
get_config(w, slot, f) ==
    LET o1 == QueryServiceConfigW(w, slot[1], 0, f[1])
        bytes_needed == o1.out.bytes_needed
        o2 == QueryServiceConfigW(o1.w, slot[1], bytes_needed, f[2])
    IN  IF slot = None THEN
            [w |-> w,
             r |-> Err("QueryServiceError", "InvalidHandle", 0,
                       "[get_config] invalid service handle")]
        ELSE IF ~o1.ok /\ get_last_error(o1.w) # ERROR_INSUFFICIENT_BUFFER THEN
            [w |-> o1.w,
             r |-> QueryServiceError_from(get_last_error(o1.w),
                                          "[get_config] QueryServiceConfig failed")]
        ELSE IF ~o2.ok THEN
            [w |-> o2.w,
             r |-> QueryServiceError_from(get_last_error(o2.w),
                                          "[get_config] QueryServiceConfig failed")]
        ELSE [w |-> o2.w, r |-> Ok(ConfigRecord(o2.out.config, BufferAtReturn))]

(* a get_start_type that decodes the neighbouring field of the record *)
get_start_type_of_type(w, slot, f) ==
    LET config == get_config(w, slot, f)
    IN  IF ~config.r.ok THEN config
        ELSE [w |-> config.w, r |-> ServiceStartType_try_from(config.r.val[1].dwServiceType)]

(* service.rs: ServiceHandle::get_start_type *)
get_start_type(w, slot, f) ==
    LET config == get_config(w, slot, f)
    IN  IF ~config.r.ok THEN config
        ELSE [w |-> config.w, r |-> ServiceStartType_try_from(config.r.val[1].dwStartType)]

(* What the OS reads through a string pointer of the record.  A pointer     *)
(* into a freed buffer is dangling: the read yields the old text if the     *)
(* memory was not reused yet and whatever was written there otherwise.      *)
Scribble == <<2, 2, NUL>>

ReadString(config, field, reused) ==
    IF config.buffer = "freed" /\ field \in reused THEN Scribble ELSE config[field]

(* service.rs: ServiceHandle::set_start_type.  f: the faults of the two     *)
(* calls of get_config and of the write; reused: the string fields whose    *)
(* freed memory was overwritten before the write reads them.                *)
set_start_type(w, slot, start_type, f, reused) ==
    LET g == get_config(w, slot, SubSeq(f, 1, 2))
        config == g.r.val[1]
        tag_id == config.dwTagId
        o == ChangeServiceConfigW(g.w, slot[1],
                 [dwServiceType |-> config.dwServiceType,
                  dwStartType |-> ServiceStartType_as_u32(start_type),
                  dwErrorControl |-> config.dwErrorControl,
                  lpBinaryPathName |-> Ptr(ReadString(config, "lpBinaryPathName", reused)),
                  lpLoadOrderGroup |-> Ptr(ReadString(config, "lpLoadOrderGroup", reused)),
                  lpdwTagId |-> Ptr(tag_id),
                  lpDependencies |-> Ptr(ReadString(config, "lpDependencies", reused)),
                  lpServiceStartName |->
                      Ptr(ReadString(config, "lpServiceStartName", reused)),
                  lpPassword |-> NULL,
                  lpDisplayName |-> Ptr(ReadString(config, "lpDisplayName", reused))],
                 f[3])
    IN  IF slot = None THEN
            [w |-> w,
             r |-> Err("UpdateServiceError", "InvalidHandle", 0,
                       "[set_start_type] invalid service handle")]
        ELSE IF ~g.r.ok THEN
            [w |-> g.w,
             r |-> Err("UpdateServiceError", "AccessDenied", get_last_error(g.w),
                       "[set_start_type] failed to get service config")]
        ELSE IF ~o.ok THEN
            [w |-> o.w,
             r |-> UpdateServiceError_from(get_last_error(o.w),
                                           "[set_start_type] ChangeServiceConfig failed")]
        ELSE [w |-> o.w, r |-> Ok(Unit)]

(* service.rs: ServiceHandle::delete *)
delete(w, slot, f) ==
    LET o == DeleteService(w, slot[1], f)
    IN  IF slot = None THEN
            [w |-> w,
             r |-> Err("DeleteServiceError", "InvalidHandle", 0,
                       "[delete] invalid service handle")]
        ELSE IF ~o.ok THEN
            [w |-> o.w,
             r |-> DeleteServiceError_from(get_last_error(o.w),
                                           "[delete] DeleteService failed")]
        ELSE [w |-> o.w, r |-> Ok(Unit)]

(* a start that tries once more when the OS refused *)
start_retries(w, slot, f) ==
    LET o == StartServiceW(w, slot[1], f)
        again == StartServiceW(o.w, slot[1], f)
    IN  IF slot = None THEN
            [w |-> w,
             r |-> Err("ControlServiceError", "InvalidHandle", 0,
                       "[start] invalid service handle")]
        ELSE IF o.ok THEN [w |-> o.w, r |-> Ok(Unit)]
        ELSE IF ~again.ok THEN
            [w |-> again.w,
             r |-> ControlServiceError_from(get_last_error(again.w),
                                            "[start] StartServiceW failed")]
        ELSE [w |-> again.w, r |-> Ok(Unit)]

(* service.rs: ServiceHandle::start *)
start(w, slot, f) ==
    LET o == StartServiceW(w, slot[1], f)
    IN  IF slot = None THEN
            [w |-> w,
             r |-> Err("ControlServiceError", "InvalidHandle", 0,
                       "[start] invalid service handle")]
        ELSE IF ~o.ok THEN
            [w |-> o.w,
             r |-> ControlServiceError_from(get_last_error(o.w),
                                            "[start] StartServiceW failed")]
        ELSE [w |-> o.w, r |-> Ok(Unit)]

(* service.rs: ServiceHandle::control *)
control(w, slot, ctl, f) ==
    LET o == ControlService(w, slot[1], ctl, f)
    IN  IF slot = None THEN
            [w |-> w,
             r |-> Err("ControlServiceError", "InvalidHandle", 0,
                       "[control] invalid service handle")]
        ELSE IF ~o.ok THEN
            [w |-> o.w,
             r |-> ControlServiceError_from(get_last_error(o.w),
                                            "[control] ControlService failed")]
        ELSE [w |-> o.w, r |-> Ok(Unit)]

(* service.rs: ServiceHandle::stop, ServiceHandle::pause *)
stop(w, slot, f) == control(w, slot, SERVICE_CONTROL_STOP, f)

pause(w, slot, f) == control(w, slot, SERVICE_CONTROL_PAUSE, f)

(* service.rs: start_blocking / stop_blocking / pause_blocking hand a       *)
(* target state and a control function to control_blocking                  *)
BlockingOps == {"start_blocking", "stop_blocking", "pause_blocking"}

TargetOf(name) ==
    CASE name = "start_blocking" -> "Running"
      [] name = "stop_blocking" -> "Stopped"
      [] name = "pause_blocking" -> "Paused"

control_fn(w, slot, name, f) ==
    CASE name = "start_blocking" -> start(w, slot, f)
      [] name = "stop_blocking" -> stop(w, slot, f)
      [] name = "pause_blocking" -> pause(w, slot, f)

(* a loop that is left at the first state it is told *)
LoopExit_first_state(status, service_state) == IF status.ok THEN "break" ELSE "fail"

(* a loop that is left when the service has settled, in the target or not *)
LoopExit_settled(status, service_state) ==
    IF status.ok THEN
        (IF status.val[1] \in {"Running", "Stopped", "Paused"} THEN "break" ELSE "sleep")
    ELSE "fail"

(* service.rs: control_blocking, the test made on each result of state():   *)
(* leave the loop, sleep and poll again, or fail                            *)
LoopExit(status, service_state) ==
    IF status.ok THEN (IF status.val[1] = service_state THEN "break" ELSE "sleep")
    ELSE "fail"

(* service.rs: control_blocking, one turn of the loop up to the sleep.      *)
(* go: what the loop does next; r: the Result when the call returns.        *)
control_blocking_poll(w, slot, service_state, f, raw) ==
    LET s == state(w, slot, f, raw)
        go == LoopExit(s.r, service_state)
    IN  [w |-> s.w,
         status |-> s.r,
         go |-> go,
         r |-> IF go = "break" THEN Ok(Unit)
               ELSE Err("ControlServiceError", "Unknown", get_last_error(s.w),
                        "[control_blocking] failed to get service state")]

SLEEP_MS == 100

-----------------------------------------------------------------------------
(* The state: the OS (db, h, lastError, priv) and the caller's thread: the  *)
(* operation it ran last or is running (op), the OS calls and sleeps of     *)
(* that operation (calls), its Result (ret), where a blocking call stands   *)
(* (pc) and what its polls saw (observed).  The facade's objects are the    *)
(* handles with a live owner; a ServiceHandle with an empty slot            *)
(* (ServiceHandle::default()) holds nothing and can be made at any time.    *)
VARIABLES db, h, lastError, priv, op, ret, calls, pc, observed

vars == <<db, h, lastError, priv, op, ret, calls, pc, observed>>

World == [db |-> db, h |-> h, le |-> lastError, priv |-> priv, calls |-> <<>>]

Running == [db |-> db, h |-> h, le |-> lastError, priv |-> priv, calls |-> calls]

Pending == Err("", "Pending", 0, "")

(* the object built around the handle a constructor returned *)
Owned(x) == IF x.r.ok THEN [x.w.h EXCEPT ![x.r.val[1][1]].owner = "live"] ELSE x.w.h

Commit(x, hh) ==
    /\ db' = x.w.db
    /\ h' = hh
    /\ lastError' = x.w.le
    /\ priv' = x.w.priv
    /\ calls' = x.w.calls
    /\ ret' = x.r

Called(name, slot, arg) == [name |-> name, obj |-> slot, arg |-> arg, pre |-> db]

Live(kind) == {i \in HandleIds : h[i].kind = kind /\ h[i].owner = "live"}

Managers == {Some(i) : i \in Live("scm")}

Handles == {None} \cup {Some(i) : i \in Live("svc")}

(* a service the database held before the program started *)
Preexisting ==
    [exists |-> TRUE, marked |-> FALSE, state |-> SERVICE_STOPPED,
     cfg |-> MkCfg(SERVICE_WIN32_OWN_PROCESS, SERVICE_AUTO_START, SERVICE_ERROR_IGNORE,
                   <<2>>, <<1>>, 7, <<2, 1>>, <<1, 2>>, <<2>>, <<2>>)]

Init ==
    /\ db \in {[n \in DbNames |-> Absent],
               [n \in DbNames |-> IF n = <<1>> THEN Preexisting ELSE Absent],
               [n \in DbNames |->
                   IF n = <<1>> THEN [Preexisting EXCEPT !.state = SERVICE_RUNNING]
                   ELSE Absent]}
    /\ h = [i \in HandleIds |-> FreeHandle]
    /\ lastError = 0
    /\ priv = FALSE
    /\ op = Called("none", None, NoArgs)
    /\ ret = Ok(Unit)
    /\ calls = <<>>
    /\ pc = "idle"
    /\ observed = <<>>

-----------------------------------------------------------------------------
(* The caller's operations.  Each runs its handler to its return.           *)
New(f) ==
    LET x == ServiceManager_new(World, f)
    IN  /\ pc = "idle"
        /\ Cardinality(FreeIds(h)) >= 2
        /\ Commit(x, Owned(x))
        /\ op' = Called("new", None, NoArgs)
        /\ UNCHANGED <<pc, observed>>

(* the object holding `slot` goes out of scope *)
Drop(slot) ==
    LET w == drop(World, slot)
    IN  /\ pc = "idle"
        /\ slot \in Managers \cup Handles
        /\ Commit([w |-> w, r |-> Ok(Unit)],
                  IF slot = None THEN w.h ELSE [w.h EXCEPT ![slot[1]].owner = "gone"])
        /\ op' = Called("drop", slot, NoArgs)
        /\ UNCHANGED <<pc, observed>>

(* an operation of the manager that returns a ServiceHandle *)
Produce(name, m, arg, x) ==
    /\ pc = "idle"
    /\ m \in Managers
    /\ FreeIds(h) # {}
    /\ Commit(x, Owned(x))
    /\ op' = Called(name, m, arg)
    /\ UNCHANGED <<pc, observed>>

CreateService(m, options, f) ==
    Produce("create_service", m, options, create_service(World, m, options, f))

GetService(m, name, f) ==
    Produce("get_service", m, [service_name |-> name], get_service(World, m, name, f))

CreateOrGet(m, options, f) ==
    Produce("create_or_get", m, options, create_or_get(World, m, options, f))

(* an operation of a ServiceHandle that runs to its return in one go *)
Call(name, slot, arg, x) ==
    /\ pc = "idle"
    /\ slot \in Handles
    /\ Commit(x, x.w.h)
    /\ op' = Called(name, slot, arg)
    /\ UNCHANGED <<pc, observed>>

State(slot, f, raw) == Call("state", slot, NoArgs, state(World, slot, f, raw))

GetStartType(slot, f) == Call("get_start_type", slot, NoArgs, get_start_type(World, slot, f))

UpdateConfig(slot, options, f) ==
    Call("update_config", slot, options, update_config(World, slot, options, f))

SetStartType(slot, start_type, f, reused) ==
    Call("set_start_type", slot, [start_type |-> start_type],
         set_start_type(World, slot, start_type, f, reused))

Delete(slot, f) == Call("delete", slot, NoArgs, delete(World, slot, f))

Start(slot, f) == Call("start", slot, NoArgs, start(World, slot, f))

Stop(slot, f) == Call("stop", slot, NoArgs, stop(World, slot, f))

Pause(slot, f) == Call("pause", slot, NoArgs, pause(World, slot, f))

(* control_blocking: control_fn()?, then the loop *)
Blocking(name, slot, f) ==
    LET x == control_fn(World, slot, name, f)
    IN  /\ pc = "idle"
        /\ slot \in Handles
        /\ Commit([x EXCEPT !.r = IF x.r.ok THEN Pending ELSE x.r], x.w.h)
        /\ op' = Called(name, slot, NoArgs)
        /\ observed' = <<>>
        /\ pc' = IF x.r.ok THEN "poll" ELSE "idle"

Poll(f, raw) ==
    LET x == control_blocking_poll(Running, op.obj, TargetOf(op.name), f, raw)
    IN  /\ pc = "poll"
        /\ Len(observed) < MaxPolls
        /\ Commit([w |-> x.w, r |-> IF x.go = "sleep" THEN Pending ELSE x.r], x.w.h)
        /\ observed' = Append(observed, x.status)
        /\ pc' = IF x.go = "sleep" THEN "sleep" ELSE "idle"
        /\ UNCHANGED op

SleepStep ==
    /\ pc = "sleep"
    /\ calls' = Sleep(Running, SLEEP_MS).calls
    /\ pc' = "poll"
    /\ UNCHANGED <<db, h, lastError, priv, op, ret, observed>>

(* The environment: a service finishes a pending transition, or its start   *)
(* fails and it falls back to Stopped.                                      *)
Settles(st) ==
    CASE st = SERVICE_START_PENDING -> {SERVICE_RUNNING, SERVICE_STOPPED}
      [] st = SERVICE_STOP_PENDING -> {SERVICE_STOPPED}
      [] st = SERVICE_PAUSE_PENDING -> {SERVICE_PAUSED}
      [] st = SERVICE_CONTINUE_PENDING -> {SERVICE_RUNNING}
      [] OTHER -> {}

ServiceSettles(n) ==
    /\ db[n].exists
    /\ \E st \in Settles(db[n].state) : db' = [db EXCEPT ![n].state = st]
    /\ UNCHANGED <<h, lastError, priv, op, ret, calls, pc, observed>>

-----------------------------------------------------------------------------
(* Inputs *)
Faults == {0, ERROR_ACCESS_DENIED, ERROR_GEN_FAILURE}

(* a handler returns at its first failed call: one fault per run is enough *)
OneFault(n) == {f \in [1..n -> Faults] : Cardinality({k \in 1..n : f[k] # 0}) <= 1}

BadText == <<1, NUL, 2>>

(* an integer outside the recognized states, or 0: the status as it is *)
RawStates == {0, 8}

Options(names, displays, paths, types, starts, controls) ==
    [service_name : names, display_name : displays, binary_path : paths,
     service_type : types, start_type : starts, error_control : controls]

-----------------------------------------------------------------------------
(* States in which a manager and one service handle are held: those left by *)
(* ServiceManager::new() followed by create_or_get, as in test.rs, on a     *)
(* database without the service, or with it stopped or running.             *)
FirstOptions ==
    [service_name |-> <<1>>, display_name |-> <<1>>, binary_path |-> <<1>>,
     service_type |-> "KernelDriver", start_type |-> "DemandStart",
     error_control |-> ServiceErrorControl_default]

InitDbs ==
    {[n \in DbNames |-> Absent],
     [n \in DbNames |-> IF n = <<1>> THEN Preexisting ELSE Absent],
     [n \in DbNames |->
         IF n = <<1>> THEN [Preexisting EXCEPT !.state = SERVICE_RUNNING] ELSE Absent]}

Fresh(db0) ==
    [db |-> db0, h |-> [i \in HandleIds |-> FreeHandle], le |-> 0, priv |-> FALSE,
     calls |-> <<>>]

Held(db0) ==
    LET m == ServiceManager_new(Fresh(db0), <<0, 0, 0, 0>>)
        g == create_or_get([m.w EXCEPT !.h = Owned(m), !.calls = <<>>], m.r.val[1],
                           FirstOptions, <<0, 0>>)
    IN  [w |-> [g.w EXCEPT !.h = Owned(g)], r |-> g.r, m |-> m.r.val[1], pre |-> m.w.db]

InitHeld ==
    \E db0 \in InitDbs :
        /\ db = Held(db0).w.db
        /\ h = Held(db0).w.h
        /\ lastError = Held(db0).w.le
        /\ priv = Held(db0).w.priv
        /\ calls = Held(db0).w.calls
        /\ ret = Held(db0).r
        /\ op = [name |-> "create_or_get", obj |-> Held(db0).m, arg |-> FirstOptions,
                 pre |-> Held(db0).pre]
        /\ pc = "idle"
        /\ observed = <<>>

-----------------------------------------------------------------------------
(* The specifications *)
NewFaults == OneFault(4) \cup {<<0, 0, 0, ERROR_NOT_ALL_ASSIGNED>>}

(* options with and without a NUL in the name and in the path *)
SmallOptions ==
    Options({<<1>>, BadText}, {<<1>>}, {<<1>>, BadText},
            {"KernelDriver"}, {"DemandStart"}, {"ErrorNormal"})

(* options whose enumerated fields are the defaults or not *)
ConfigOptions ==
    Options({<<2>>}, {<<1>>}, {<<1>>, BadText},
            {ServiceType_default, "Win32ShareProcess"},
            {ServiceStartType_default, "BootStart"},
            {ServiceErrorControl_default, "ErrorCritical"})

(* the freed buffer was not reused, or one string of it, or all of it was *)
Reuses == {{}, {"lpBinaryPathName"}, StringFields}

(* SpecLife: managers and handles are made and dropped *)
NextLife ==
    \/ \E f \in NewFaults : New(f)
    \/ \E s \in Managers \cup Handles : Drop(s)
    \/ \E m \in Managers, o \in SmallOptions, f \in Faults : CreateService(m, o, f)
    \/ \E m \in Managers, n \in {<<1>>, <<2>>, BadText}, f \in Faults : GetService(m, n, f)
    \/ \E m \in Managers, o \in SmallOptions, f \in OneFault(2) \cup {<<5, 5>>} :
          CreateOrGet(m, o, f)

SpecLife == Init /\ [][NextLife]_vars

(* Spec: every operation that is not a blocking one, on one manager and up  *)
(* to MaxLive service handles                                               *)
NoManagerYet == \A i \in HandleIds : h[i].kind # "scm"

FewHandles == Cardinality({i \in HandleIds : h[i].kind = "svc"}) < MaxLive

NameOptions ==
    Options({<<1>>, BadText}, {<<1>>}, {<<1>>},
            {"KernelDriver"}, {"DemandStart"}, {"ErrorNormal"})

LiveHandles == Handles \ {None}

Next ==
    \/ \E f \in NewFaults : NoManagerYet /\ New(f)
    \/ \E m \in Managers, o \in NameOptions, f \in Faults :
          FewHandles /\ CreateService(m, o, f)
    \/ \E m \in Managers, n \in {<<1>>, BadText}, f \in Faults :
          FewHandles /\ GetService(m, n, f)
    \/ \E m \in Managers, o \in NameOptions, f \in OneFault(2) \cup {<<5, 5>>} :
          FewHandles /\ CreateOrGet(m, o, f)
    \/ \E s \in LiveHandles, f \in Faults, raw \in RawStates : State(s, f, raw)
    \/ \E s \in LiveHandles, f \in OneFault(2) : GetStartType(s, f)
    \/ \E s \in LiveHandles, f \in Faults :
          UpdateConfig(s, [FirstOptions EXCEPT !.binary_path = <<2>>], f)
    \/ \E s \in LiveHandles, f \in OneFault(3), reused \in {{}, StringFields} :
          SetStartType(s, "AutoStart", f, reused)
    \/ \E s \in LiveHandles, f \in Faults : Delete(s, f)
    \/ \E s \in LiveHandles, f \in Faults : Start(s, f)
    \/ \E s \in LiveHandles, f \in Faults : Stop(s, f)
    \/ \E s \in LiveHandles, f \in Faults : Pause(s, f)

Spec == Init /\ [][Next]_vars

(* SpecEmpty: every operation of a ServiceHandle on a handle whose slot is   *)
(* empty, and the operations that return at once on the handle held          *)
(* whatever the OS would answer, an empty slot never reaches it *)
EmptyFaults == {0, ERROR_ACCESS_DENIED}

NextEmpty ==
    \/ \E s \in Handles, f \in EmptyFaults, raw \in RawStates : State(s, f, raw)
    \/ \E s \in Handles, f \in [1..2 -> EmptyFaults] : GetStartType(s, f)
    \/ \E s \in Handles, f \in EmptyFaults :
          UpdateConfig(s, [FirstOptions EXCEPT !.binary_path = <<2>>], f)
    \/ \E s \in Handles, f \in [1..3 -> EmptyFaults] :
          SetStartType(s, "AutoStart", f, {})
    \/ \E s \in Handles, f \in EmptyFaults : Delete(s, f)
    \/ \E s \in Handles, f \in EmptyFaults : Start(s, f)
    \/ \E s \in Handles, f \in EmptyFaults : Stop(s, f)
    \/ \E s \in Handles, f \in EmptyFaults : Pause(s, f)
    \/ \E n \in BlockingOps, f \in EmptyFaults : Blocking(n, None, f)

SpecEmpty == InitHeld /\ [][NextEmpty]_vars

(* SpecBlocking: the control operations and their blocking variants *)
NextBlocking ==
    \/ \E s \in LiveHandles, f \in Faults : Start(s, f)
    \/ \E s \in LiveHandles, f \in Faults : Stop(s, f)
    \/ \E s \in LiveHandles, f \in Faults : Pause(s, f)
    \/ \E n \in BlockingOps, s \in LiveHandles, f \in Faults : Blocking(n, s, f)
    \/ \E f \in Faults, raw \in RawStates : Poll(f, raw)
    \/ SleepStep
    \/ \E n \in DbNames : ServiceSettles(n)

SpecBlocking == InitHeld /\ [][NextBlocking]_vars

(* SpecConfig: the configuration is read and rewritten *)
NextConfig ==
    \/ \E s \in LiveHandles, f \in OneFault(2) : GetStartType(s, f)
    \/ \E s \in LiveHandles, o \in ConfigOptions, f \in {0, ERROR_ACCESS_DENIED} :
          UpdateConfig(s, o, f)
    \/ \E s \in LiveHandles, st \in {"AutoStart"}, f \in OneFault(3), reused \in Reuses :
          SetStartType(s, st, f, reused)

SpecConfig == InitHeld /\ [][NextConfig]_vars

-----------------------------------------------------------------------------
(* Properties of the lifecycle (SpecLife) *)
CallsOf(api) == {k \in 1..Len(calls) : calls[k].api = api}

(* C1: CloseServiceHandle is invoked on the handle of a successfully         *)
(* constructed manager or service handle exactly once, at its destruction    *)
(* (never while the object lives, once when it is gone, and the drop itself  *)
(* is that one call), and no constructor that returns an error invokes it.   *)
C1_CloseExactlyOnce ==
    /\ \A i \in HandleIds :
          /\ h[i].owner = "live" => h[i].closes = 0 /\ h[i].open
          /\ h[i].owner = "gone" => h[i].closes = 1 /\ ~h[i].open
    /\ op.name = "drop" /\ op.obj # None =>
          /\ Len(calls) = 1
          /\ calls[1].api = "CloseServiceHandle"
          /\ calls[1].h = op.obj[1]
          /\ calls[1].code = 0
    /\ op.name = "drop" /\ op.obj = None => calls = <<>>
    /\ op.name \in {"new", "create_service", "get_service", "create_or_get"} /\ ~ret.ok =>
          CallsOf("CloseServiceHandle") = {}

(* a manager and a service handle were both dropped, the handle last, after  *)
(* a constructor had failed *)
C1_Witness ==
    /\ op.name = "drop"
    /\ op.obj # None
    /\ h[op.obj[1]].kind = "svc"
    /\ h[op.obj[1]].closes = 1
    /\ \E i \in HandleIds : h[i].kind = "scm" /\ h[i].owner = "gone" /\ h[i].closes = 1
    /\ \E i \in HandleIds : h[i].kind = "scm" /\ h[i].owner = ""

(* C2: every OS handle the facade acquired is released on all exit paths:    *)
(* a handle that no live object holds is closed, whether its constructor     *)
(* succeeded (and the object was dropped) or returned an error after the     *)
(* open.                                                                     *)
C2_NoHandleLeft ==
    \A i \in HandleIds : h[i].kind # "free" /\ h[i].owner # "live" => ~h[i].open

(* C4: create_or_get tries get_service(config.service_name) first; if the    *)
(* open succeeds no create is issued, the database is as it was, and the     *)
(* handle returned is one to the service that was there; a create is issued  *)
(* only after the open failed.                                               *)
C4_CreateOrGetBias ==
    op.name = "create_or_get" =>
        /\ calls # <<>> =>
              /\ calls[1].api = "OpenServiceW"
              /\ calls[1].args.name = op.arg.service_name
        /\ calls # <<>> /\ calls[1].code = 0 =>
              /\ Len(calls) = 1
              /\ db = op.pre
              /\ ret.ok
              /\ op.pre[op.arg.service_name].exists
              /\ h[ret.val[1][1]].kind = "svc"
              /\ h[ret.val[1][1]].name = op.arg.service_name
        /\ \A k \in CallsOf("CreateServiceW") :
              k = 2 /\ calls[1].api = "OpenServiceW" /\ calls[1].code # 0

(* create_or_get returned a handle to a service that was there before *)
C4_Witness ==
    /\ op.name = "create_or_get"
    /\ ret.ok
    /\ Len(calls) = 1
    /\ op.pre[<<1>>].exists
    /\ op.pre[<<1>>].cfg # MkCfg(SERVICE_KERNEL_DRIVER, SERVICE_DEMAND_START,
                                 SERVICE_ERROR_NORMAL, <<1>>, <<>>, 0, <<>>, <<>>, <<>>, <<1>>)

-----------------------------------------------------------------------------
(* Properties of a handle whose slot is empty (SpecEmpty) *)
HandleOps ==
    {"state", "get_start_type", "update_config", "set_start_type", "delete", "start",
     "stop", "pause"} \cup BlockingOps

(* the error family in the signature of each operation *)
FamilyOf(name) ==
    CASE name = "new" -> "ServiceManagerError"
      [] name \in {"create_service", "create_or_get"} -> "CreateServiceError"
      [] name = "get_service" -> "OpenServiceError"
      [] name \in {"state", "get_start_type"} -> "QueryServiceError"
      [] name \in {"update_config", "set_start_type"} -> "UpdateServiceError"
      [] name = "delete" -> "DeleteServiceError"
      [] name \in {"start", "stop", "pause"} \cup BlockingOps -> "ControlServiceError"

(* C3: on a ServiceHandle whose handle slot is empty every public operation  *)
(* fails with the InvalidHandle kind of its own error family, having issued  *)
(* no OS call and no sleep (and so having changed nothing).                  *)
C3_EmptySlotInvalidHandle ==
    op.name \in HandleOps /\ op.obj = None =>
        /\ ~ret.ok
        /\ ret.kind = "InvalidHandle"
        /\ ret.family = FamilyOf(op.name)
        /\ calls = <<>>
        /\ pc = "idle"
        /\ db = op.pre

(* a blocking operation returned on an empty slot while the service runs and *)
(* an earlier OS call had failed                                             *)
C3_Witness ==
    /\ op.name = "stop_blocking"
    /\ op.obj = None
    /\ ret.kind = "InvalidHandle"
    /\ db[<<1>>].state = SERVICE_START_PENDING
    /\ lastError = ERROR_ACCESS_DENIED

-----------------------------------------------------------------------------
(* Properties of the blocking operations (SpecBlocking) *)
Last(s) == s[Len(s)]

Returned == op.name \in BlockingOps /\ pc = "idle"

(* C5: a blocking operation that returns Ok has slept once after each state  *)
(* it observed before the last one, none of which was its target; the last   *)
(* state it observed is its target (Running, Stopped, Paused); and a state() *)
(* query made now, nothing else having acted on the service, yields it.      *)
C5_BlockingConverges ==
    Returned /\ ret.ok =>
        /\ observed # <<>>
        /\ Last(observed) = Ok(TargetOf(op.name))
        /\ \A k \in 1..(Len(observed) - 1) :
              observed[k].ok /\ observed[k].val[1] # TargetOf(op.name)
        /\ Cardinality(CallsOf("sleep")) = Len(observed) - 1
        /\ state(Running, op.obj, 0, 0).r = Ok(TargetOf(op.name))

(* start_blocking returned Ok after it saw StartPending twice, then Running *)
C5_Witness ==
    /\ op.name = "start_blocking"
    /\ pc = "idle"
    /\ ret.ok
    /\ observed = <<Ok("StartPending"), Ok("StartPending"), Ok("Running")>>
    /\ Cardinality(CallsOf("sleep")) = 2

(* C6: once its command was accepted a blocking operation has returned only  *)
(* if its last poll observed its target state or failed; every state it      *)
(* observed before was told without error and was not the target, and each   *)
(* was followed by a sleep and another poll.                                 *)
C6_OnlyTargetEndsLoop ==
    op.name \in BlockingOps =>
        /\ \A k \in 1..(Len(observed) - 1) :
              observed[k].ok /\ observed[k].val[1] # TargetOf(op.name)
        /\ observed = <<>> => pc = "poll" \/ (pc = "idle" /\ ~ret.ok /\ calls[1].code # 0)
        /\ observed # <<>> =>
              /\ pc = "idle" <=>
                    ~Last(observed).ok \/ Last(observed) = Ok(TargetOf(op.name))
              /\ pc = "idle" => (ret.ok <=> Last(observed).ok)
        /\ pc = "sleep" => Cardinality(CallsOf("sleep")) = Len(observed) - 1
        /\ pc = "poll" => Cardinality(CallsOf("sleep")) = Len(observed)
        /\ pc # "idle" => ret = Pending

(* start_blocking sleeps on after it saw the start fail: Stopped is settled  *)
(* but is not its target                                                     *)
C6_Witness ==
    /\ op.name = "start_blocking"
    /\ pc = "sleep"
    /\ observed = <<Ok("StartPending"), Ok("Stopped")>>

(* C7: a blocking operation whose poll failed, be it that the OS query      *)
(* failed or that the state integer was not recognized, fails with           *)
(* ControlServiceError::Unknown carrying the code of the failed state query. *)
C7_PollFailureCode ==
    Returned /\ observed # <<>> /\ ~Last(observed).ok =>
        /\ ~ret.ok
        /\ ret.family = "ControlServiceError"
        /\ ret.kind = "Unknown"
        /\ ret.code = Last(observed).code

-----------------------------------------------------------------------------
(* Properties of error propagation (Spec) *)
PublicOps ==
    {"new", "create_service", "get_service", "create_or_get", "state", "get_start_type",
     "update_config", "set_start_type", "delete", "start", "stop", "pause"}

(* error.rs: the table of each family *)
FromOf(family, code) ==
    CASE family = "ServiceManagerError" -> ServiceManagerError_from(code, "")
      [] family = "CreateServiceError" -> CreateServiceError_from(code, "")
      [] family = "OpenServiceError" -> OpenServiceError_from(code, "")
      [] family = "QueryServiceError" -> QueryServiceError_from(code, "")
      [] family = "UpdateServiceError" -> UpdateServiceError_from(code, "")
      [] family = "DeleteServiceError" -> DeleteServiceError_from(code, "")
      [] family = "ControlServiceError" -> ControlServiceError_from(code, "")

Failed == {k \in 1..Len(calls) : calls[k].code # 0}

Repeated(k) == \E j \in (k + 1)..Len(calls) : calls[j].api = calls[k].api

(* the failure of call k is what the operation returned, as its family's    *)
(* table maps the code, and the call was not made again                     *)
Propagated(k) ==
    /\ ~ret.ok
    /\ ret.family = FamilyOf(op.name)
    /\ ret.kind = FromOf(FamilyOf(op.name), calls[k].code).kind
    /\ ret.code = calls[k].code
    /\ ~Repeated(k)

(* the open of create_or_get *)
Fallback(k) == op.name = "create_or_get" /\ calls[k].api = "OpenServiceW"

(* the sizing call of get_config, refused for want of a buffer *)
Sizing(k) ==
    /\ calls[k].api = "QueryServiceConfigW"
    /\ calls[k].args.cbBufSize = 0
    /\ calls[k].code = ERROR_INSUFFICIENT_BUFFER

(* the configuration read of set_start_type *)
ConfigRead(k) == op.name = "set_start_type" /\ calls[k].api = "QueryServiceConfigW"

(* the calls of set_privilege within ServiceManager::new *)
Privilege(k) ==
    /\ op.name = "new"
    /\ calls[k].api \in {"OpenProcessToken", "LookupPrivilegeValueW", "AdjustTokenPrivileges"}

(* C8 as stated: in every public operation but the blocking loop, each      *)
(* failed OS call is returned to the caller with the kind its family's      *)
(* table gives its code, and is not repeated.                               *)
C8_AsStated == op.name \in PublicOps => \A k \in Failed : Propagated(k)

(* C8: in every public operation but the blocking loop a failed OS call is   *)
(* the last OS call made, it is returned to the caller with the kind its     *)
(* family's table gives its code, and no call is repeated after it failed,   *)
(* except that: the open of create_or_get, when it fails, is followed by the *)
(* create, whose outcome is returned; the sizing call of get_config, refused *)
(* with ERROR_INSUFFICIENT_BUFFER, is followed by one call with a buffer; a  *)
(* failed configuration read in set_start_type is returned as                *)
(* UpdateServiceError::AccessDenied with the code of the read; and a failed  *)
(* privilege call in ServiceManager::new is returned as                      *)
(* ServiceManagerError::AccessDenied with the code of that call.             *)
C8_PropagationPolicy ==
    op.name \in PublicOps =>
        \A k \in Failed :
            CASE Fallback(k) ->
                    /\ k = 1
                    /\ ~Repeated(k)
                    /\ Len(calls) <= 2
                    /\ Len(calls) = 2 => calls[2].api = "CreateServiceW"
                    /\ ret.ok <=> (Len(calls) = 2 /\ calls[2].code = 0)
                    /\ ~ret.ok => ret.family = "CreateServiceError"
              [] Sizing(k) /\ ~Fallback(k) ->
                    /\ k = 1
                    /\ Len(calls) >= 2
                    /\ calls[2].api = "QueryServiceConfigW"
                    /\ calls[2].args.cbBufSize > 0
                    /\ ~\E j \in 3..Len(calls) : calls[j].api = "QueryServiceConfigW"
              [] ConfigRead(k) /\ ~Sizing(k) ->
                    /\ k = Len(calls)
                    /\ ~ret.ok
                    /\ ret.family = "UpdateServiceError"
                    /\ ret.kind = "AccessDenied"
                    /\ ret.code = calls[k].code
              [] Privilege(k) ->
                    /\ ~ret.ok
                    /\ ret.family = "ServiceManagerError"
                    /\ ret.kind = "AccessDenied"
                    /\ ret.code = calls[k].code
                    /\ ~Repeated(k)
              [] OTHER -> Propagated(k) /\ k = Len(calls)

(* a start that the OS refused because the service was running came back as *)
(* ServiceAlreadyRunning                                                    *)
C8_Witness ==
    /\ op.name = "start"
    /\ Len(calls) = 1
    /\ calls[1].code = ERROR_SERVICE_ALREADY_RUNNING
    /\ ret.family = "ControlServiceError"
    /\ ret.kind = "ServiceAlreadyRunning"

-----------------------------------------------------------------------------
(* Properties of the configuration writes (SpecConfig) *)
Target == h[op.obj[1]].name

(* C9: a successful set_start_type(s) issued one configuration write, in     *)
(* which the start type is s, every other field written is the value the     *)
(* service had when the call read its configuration, and no password is      *)
(* given; the stored password is as it was.                                  *)
C9_WritesOnlyStartType ==
    op.name = "set_start_type" /\ ret.ok =>
        LET wr == calls[Len(calls)].args
            old == op.pre[Target].cfg
        IN  /\ Cardinality(CallsOf("ChangeServiceConfigW")) = 1
            /\ calls[Len(calls)].api = "ChangeServiceConfigW"
            /\ wr.dwStartType = ServiceStartType_as_u32(op.arg.start_type)
            /\ wr.dwServiceType = old.dwServiceType
            /\ wr.dwErrorControl = old.dwErrorControl
            /\ wr.lpdwTagId = Ptr(old.dwTagId)
            /\ \A x \in StringFields : wr[x] # NULL /\ WideToText(wr[x][1]) = old[x]
            /\ wr.lpPassword = NULL
            /\ db[Target].cfg = [old EXCEPT !.dwStartType = wr.dwStartType]

(* C10: a successful update_config(c) leaves the service with the service    *)
(* type, start type, error control, binary path and display name of c, and   *)
(* with the load-order group, tag id, dependencies, start account and        *)
(* password it had; c.service_name plays no part: the service written is the *)
(* one the handle names, and no other service changes.                       *)
C10_UpdateConfigFrame ==
    op.name = "update_config" /\ ret.ok =>
        LET new == db[Target].cfg
            old == op.pre[Target].cfg
        IN  /\ new.dwServiceType = ServiceType_as_u32(op.arg.service_type)
            /\ new.dwStartType = ServiceStartType_as_u32(op.arg.start_type)
            /\ new.dwErrorControl = ServiceErrorControl_as_u32(op.arg.error_control)
            /\ new.lpBinaryPathName = op.arg.binary_path
            /\ new.lpDisplayName = op.arg.display_name
            /\ new.lpLoadOrderGroup = old.lpLoadOrderGroup
            /\ new.dwTagId = old.dwTagId
            /\ new.lpDependencies = old.lpDependencies
            /\ new.lpServiceStartName = old.lpServiceStartName
            /\ new.lpPassword = old.lpPassword
            /\ Len(calls) = 1
            /\ calls[1].h = op.obj[1]
            /\ \A n \in DbNames \ {Target} : db[n] = op.pre[n]

(* update_config with the three defaults rewrote a service that was a        *)
(* Win32 auto-start service with a group, a tag, dependencies, an account    *)
(* and a password, and whose name is not the service_name given              *)
C10_Witness ==
    /\ op.name = "update_config"
    /\ ret.ok
    /\ op.arg.service_name # Target
    /\ op.pre[Target].cfg = Preexisting.cfg
    /\ db[Target].cfg.dwServiceType = SERVICE_KERNEL_DRIVER
    /\ db[Target].cfg.dwStartType = SERVICE_DEMAND_START
    /\ db[Target].cfg.dwErrorControl = SERVICE_ERROR_NORMAL
    /\ db[Target].cfg.lpBinaryPathName = <<1>>
    /\ db[Target].cfg.lpLoadOrderGroup = <<1>>

-----------------------------------------------------------------------------
(* The conversions on their own (SpecPure): a code and a context are turned  *)
(* into an error of a family; an enum value is cast to u32 and the u32 is    *)
(* decoded; an arbitrary u32 is decoded.                                     *)
ErrorFamilies ==
    {"ServiceManagerError", "OpenServiceError", "CreateServiceError", "UpdateServiceError",
     "ControlServiceError", "DeleteServiceError", "QueryServiceError"}

(* error.rs: <Family>::from((err, display)) *)
ErrorFrom(family, err, display) ==
    CASE family = "ServiceManagerError" -> ServiceManagerError_from(err, display)
      [] family = "CreateServiceError" -> CreateServiceError_from(err, display)
      [] family = "OpenServiceError" -> OpenServiceError_from(err, display)
      [] family = "QueryServiceError" -> QueryServiceError_from(err, display)
      [] family = "UpdateServiceError" -> UpdateServiceError_from(err, display)
      [] family = "DeleteServiceError" -> DeleteServiceError_from(err, display)
      [] family = "ControlServiceError" -> ControlServiceError_from(err, display)

Enums == {"ServiceType", "ServiceStartType", "ServiceErrorControl", "ServiceState"}

ValuesOf(enum) ==
    CASE enum = "ServiceType" -> ServiceTypes
      [] enum = "ServiceStartType" -> ServiceStartTypes
      [] enum = "ServiceErrorControl" -> ServiceErrorControls
      [] enum = "ServiceState" -> ServiceStates

(* service.rs: `value as u32` on a #[repr(u32)] enum *)
as_u32(enum, v) ==
    CASE enum = "ServiceType" -> ServiceType_as_u32(v)
      [] enum = "ServiceStartType" -> ServiceStartType_as_u32(v)
      [] enum = "ServiceErrorControl" -> ServiceErrorControl_as_u32(v)
      [] enum = "ServiceState" -> ServiceState_as_u32(v)

(* service.rs: the enums that implement TryFrom<u32>; ServiceErrorControl    *)
(* does not, and nothing else in the crate decodes it                        *)
TryFromImpls == {"ServiceType", "ServiceStartType", "ServiceState"}

NoImpl == Err("", "no TryFrom<u32>", 0, "")

try_from(enum, value) ==
    CASE enum = "ServiceType" -> ServiceType_try_from(value)
      [] enum = "ServiceStartType" -> ServiceStartType_try_from(value)
      [] enum = "ServiceState" -> ServiceState_try_from(value)
      [] OTHER -> NoImpl

Convert(name, arg, r) ==
    /\ pc = "idle"
    /\ ret' = r
    /\ op' = Called(name, None, arg)
    /\ calls' = <<>>
    /\ UNCHANGED <<db, h, lastError, priv, pc, observed>>

From(family, err, display) ==
    Convert("from", [family |-> family, err |-> err, display |-> display],
            ErrorFrom(family, err, display))

RoundTrip(enum, v) ==
    Convert("round_trip", [enum |-> enum, value |-> v, code |-> as_u32(enum, v)],
            try_from(enum, as_u32(enum, v)))

TryFrom(enum, value) ==
    Convert("try_from", [enum |-> enum, value |-> value], try_from(enum, value))

(* the codes of the seven tables, and codes of none *)
TableCodes ==
    {ERROR_ACCESS_DENIED, ERROR_INVALID_HANDLE, ERROR_FILE_NOT_FOUND, ERROR_PATH_NOT_FOUND,
     ERROR_INVALID_PARAMETER, ERROR_INVALID_NAME, ERROR_SERVICE_REQUEST_TIMEOUT,
     ERROR_SERVICE_NO_THREAD, ERROR_SERVICE_DATABASE_LOCKED, ERROR_SERVICE_ALREADY_RUNNING,
     ERROR_INVALID_SERVICE_ACCOUNT, ERROR_SERVICE_DISABLED, ERROR_CIRCULAR_DEPENDENCY,
     ERROR_SERVICE_DOES_NOT_EXIST, ERROR_SERVICE_NOT_ACTIVE, ERROR_DATABASE_DOES_NOT_EXIST,
     ERROR_SERVICE_DEPENDENCY_FAIL, ERROR_SERVICE_LOGON_FAILED,
     ERROR_SERVICE_MARKED_FOR_DELETE, ERROR_SERVICE_EXISTS,
     ERROR_SERVICE_DEPENDENCY_DELETED, ERROR_DUPLICATE_SERVICE_NAME}

(* a u32 far from every table (the largest integer the checker holds) *)
LargeCode == 2147483647

OtherCodes ==
    {0, ERROR_INSUFFICIENT_BUFFER, ERROR_GEN_FAILURE, ERROR_SERVICE_CANNOT_ACCEPT_CTRL,
     ERROR_NOT_ALL_ASSIGNED, LargeCode}

NextPure ==
    \/ \E fam \in ErrorFamilies, err \in TableCodes \cup OtherCodes,
          d \in {"", "[delete] DeleteService failed"} :
          From(fam, err, d)
    \/ \E e \in Enums : \E v \in ValuesOf(e) : RoundTrip(e, v)
    \/ \E e \in Enums, value \in 0..(SERVICE_WIN32_SHARE_PROCESS + 1) \cup {LargeCode} :
          TryFrom(e, value)

(* no service is needed to convert *)
InitPure == Init /\ db = [n \in DbNames |-> Absent]

SpecPure == InitPure /\ [][NextPure]_vars

-----------------------------------------------------------------------------
(* Properties of the conversions (SpecPure) *)

(* The kind documented for a code in a family's table; "Unknown" for a code  *)
(* outside it.  The kind documented as ServiceMarkedForDelete is the variant *)
(* DeleteServiceError names ErrorServiceMarkedForDelete.                     *)
DocumentedKind(family, code) ==
    CASE family = "ServiceManagerError" ->
            (CASE code = ERROR_ACCESS_DENIED -> "AccessDenied"
               [] code = ERROR_DATABASE_DOES_NOT_EXIST -> "DatabaseDoesNotExist"
               [] code = ERROR_INVALID_HANDLE -> "DatabaseDoesNotExist"
               [] OTHER -> "Unknown")
      [] family = "OpenServiceError" ->
            (CASE code = ERROR_ACCESS_DENIED -> "AccessDenied"
               [] code = ERROR_INVALID_HANDLE -> "InvalidHandle"
               [] code = ERROR_INVALID_NAME -> "InvalidName"
               [] code = ERROR_SERVICE_DOES_NOT_EXIST -> "ServiceDoesNotExist"
               [] OTHER -> "Unknown")
      [] family = "CreateServiceError" ->
            (CASE code = ERROR_ACCESS_DENIED -> "AccessDenied"
               [] code = ERROR_CIRCULAR_DEPENDENCY -> "CircularDependency"
               [] code = ERROR_INVALID_HANDLE -> "InvalidHandle"
               [] code = ERROR_INVALID_NAME -> "InvalidName"
               [] code = ERROR_INVALID_PARAMETER -> "InvalidParameter"
               [] code = ERROR_INVALID_SERVICE_ACCOUNT -> "InvalidServiceAccount"
               [] code \in {ERROR_DUPLICATE_SERVICE_NAME, ERROR_SERVICE_EXISTS} ->
                     "ServiceExists"
               [] code = ERROR_SERVICE_MARKED_FOR_DELETE -> "ServiceMarkedForDelete"
               [] OTHER -> "Unknown")
      [] family = "UpdateServiceError" ->
            (CASE code = ERROR_ACCESS_DENIED -> "AccessDenied"
               [] code = ERROR_CIRCULAR_DEPENDENCY -> "CircularDependency"
               [] code = ERROR_DUPLICATE_SERVICE_NAME -> "DuplicateServiceName"
               [] code = ERROR_INVALID_HANDLE -> "InvalidHandle"
               [] code = ERROR_INVALID_PARAMETER -> "InvalidParameter"
               [] code = ERROR_INVALID_SERVICE_ACCOUNT -> "InvalidServiceAccount"
               [] code = ERROR_SERVICE_MARKED_FOR_DELETE -> "ServiceMarkedForDelete"
               [] OTHER -> "Unknown")
      [] family = "ControlServiceError" ->
            (CASE code = ERROR_ACCESS_DENIED -> "AccessDenied"
               [] code = ERROR_INVALID_HANDLE -> "InvalidHandle"
               [] code \in {ERROR_PATH_NOT_FOUND, ERROR_FILE_NOT_FOUND} -> "PathNotFound"
               [] code = ERROR_SERVICE_ALREADY_RUNNING -> "ServiceAlreadyRunning"
               [] code = ERROR_SERVICE_NOT_ACTIVE -> "ServiceNotActive"
               [] code = ERROR_SERVICE_DATABASE_LOCKED -> "ServiceDatabaseLocked"
               [] code = ERROR_SERVICE_DEPENDENCY_DELETED -> "ServiceDependencyDeleted"
               [] code = ERROR_SERVICE_DEPENDENCY_FAIL -> "ServiceDependencyFail"
               [] code = ERROR_SERVICE_DISABLED -> "ServiceDisabled"
               [] code = ERROR_SERVICE_LOGON_FAILED -> "ServiceLogonFailed"
               [] code = ERROR_SERVICE_MARKED_FOR_DELETE -> "ServiceMarkedForDelete"
               [] code = ERROR_SERVICE_NO_THREAD -> "ServiceNoThread"
               [] code = ERROR_SERVICE_REQUEST_TIMEOUT -> "ServiceRequestTimeout"
               [] OTHER -> "Unknown")
      [] family = "DeleteServiceError" ->
            (CASE code = ERROR_ACCESS_DENIED -> "AccessDenied"
               [] code = ERROR_SERVICE_MARKED_FOR_DELETE -> "ErrorServiceMarkedForDelete"
               [] code = ERROR_INVALID_HANDLE -> "InvalidHandle"
               [] OTHER -> "Unknown")
      [] family = "QueryServiceError" ->
            (CASE code = ERROR_ACCESS_DENIED -> "AccessDenied"
               [] code = ERROR_INVALID_HANDLE -> "InvalidHandle"
               [] OTHER -> "Unknown")

(* C11: in each of the seven families, From<(code, context)> yields an error *)
(* of that family, of the kind documented for the code (Unknown for a code   *)
(* outside the family's table), carrying the code and the context it was     *)
(* given.                                                                    *)
C11_ErrorMapping ==
    op.name = "from" =>
        /\ ~ret.ok
        /\ ret.family = op.arg.family
        /\ ret.kind = DocumentedKind(op.arg.family, op.arg.err)
        /\ ret.code = op.arg.err
        /\ ret.ctx = op.arg.display

(* the second code of a many-to-one row was converted with a context *)
C11_Witness ==
    /\ op.name = "from"
    /\ op.arg = [family |-> "CreateServiceError", err |-> ERROR_DUPLICATE_SERVICE_NAME,
                 display |-> "[delete] DeleteService failed"]
    /\ ret.kind = "ServiceExists"
    /\ ret.code = ERROR_DUPLICATE_SERVICE_NAME

(* The numeric code listed for each value of each enum.  The values listed   *)
(* as Ignore, Normal, Severe, Critical are the variants ErrorIgnore,         *)
(* ErrorNormal, ErrorSevere, ErrorCritical.                                  *)
DocumentedCode(enum, v) ==
    CASE enum = "ServiceType" ->
            (CASE v = "KernelDriver" -> 1 [] v = "FileSystemDriver" -> 2
               [] v = "Adapter" -> 4 [] v = "RecognizerDriver" -> 8
               [] v = "Win32OwnProcess" -> 16 [] v = "Win32ShareProcess" -> 32)
      [] enum = "ServiceStartType" ->
            (CASE v = "BootStart" -> 0 [] v = "SystemStart" -> 1 [] v = "AutoStart" -> 2
               [] v = "DemandStart" -> 3 [] v = "Disabled" -> 4)
      [] enum = "ServiceErrorControl" ->
            (CASE v = "ErrorIgnore" -> 0 [] v = "ErrorNormal" -> 1 [] v = "ErrorSevere" -> 2
               [] v = "ErrorCritical" -> 3)
      [] enum = "ServiceState" ->
            (CASE v = "Stopped" -> 1 [] v = "StartPending" -> 2 [] v = "StopPending" -> 3
               [] v = "Running" -> 4 [] v = "ContinuePending" -> 5
               [] v = "PausePending" -> 6 [] v = "Paused" -> 7)

(* C12 as stated: every value of each of the four enums, encoded to its      *)
(* listed code and decoded, is the value again.                              *)
C12_AsStated ==
    op.name = "round_trip" =>
        /\ op.arg.code = DocumentedCode(op.arg.enum, op.arg.value)
        /\ ret = Ok(op.arg.value)

(* C12: every value of the four enums encodes to its listed code; every      *)
(* value of ServiceType, ServiceStartType and ServiceState, encoded and      *)
(* decoded, is the value again; ServiceErrorControl is encoded only (its     *)
(* codes are distinct, and no decoder of it exists).                         *)
C12_RoundTrip ==
    op.name = "round_trip" =>
        /\ op.arg.code = DocumentedCode(op.arg.enum, op.arg.value)
        /\ op.arg.enum \in TryFromImpls => ret = Ok(op.arg.value)
        /\ op.arg.enum \notin TryFromImpls =>
              /\ ret = NoImpl
              /\ \A v \in ValuesOf(op.arg.enum) \ {op.arg.value} :
                    as_u32(op.arg.enum, v) # op.arg.code

(* a start type whose code is not its position among the variants went round *)
C12_Witness ==
    /\ op.name = "round_trip"
    /\ op.arg = [enum |-> "ServiceStartType", value |-> "AutoStart",
                 code |-> SERVICE_AUTO_START]
    /\ ret = Ok("AutoStart")


-----------------------------------------------------------------------------
(* Failures that no OS call caused *)
StringsOf(name) ==
    CASE name \in {"create_service", "create_or_get"} ->
            {"service_name", "display_name", "binary_path"}
      [] name = "get_service" -> {"service_name"}
      [] name = "update_config" -> {"display_name", "binary_path"}
      [] OTHER -> {}

(* C13: an operation that failed though none of its OS calls failed carries  *)
(* code 0; when a string it was given cannot be encoded, create_service,     *)
(* get_service and update_config fail with InvalidName or InvalidParameter   *)
(* before any OS call; and a state or start type that is not recognized      *)
(* gives a QueryServiceError, not a value.                                   *)
C13_InternalFailureCodeZero ==
    /\ op.name \in PublicOps \cup BlockingOps /\ pc = "idle" /\ ~ret.ok /\ Failed = {} =>
          ret.code = 0
    /\ op.name \in {"create_service", "get_service", "update_config"}
        /\ (\E x \in StringsOf(op.name) : HasNul(op.arg[x]))
        /\ op.obj # None =>
          /\ ~ret.ok
          /\ ret.kind \in {"InvalidName", "InvalidParameter"}
          /\ calls = <<>>
    /\ op.name \in {"state", "get_start_type"} /\ ~ret.ok /\ Failed = {} /\ op.obj # None =>
          ret.family = "QueryServiceError" /\ ret.kind = "Unknown"

-----------------------------------------------------------------------------
(* Properties of the start type read back (Spec) *)
Writers == {"create_service", "create_or_get", "update_config", "set_start_type"}

(* what get_start_type returns when it is called now and the OS lets it *)
ReadBack ==
    LET handle == IF op.name \in {"create_service", "create_or_get"} THEN ret.val[1]
                  ELSE op.obj
    IN  get_start_type(Running, handle, <<0, 0>>).r

(* create_or_get found the service and opened it *)
Opened == op.name = "create_or_get" /\ CallsOf("CreateServiceW") = {}

(* a get_start_type that succeeded changed nothing and returned the start    *)
(* type stored for the service                                               *)
ReadsStored ==
    op.name = "get_start_type" /\ ret.ok =>
        /\ db = op.pre
        /\ ret = ServiceStartType_try_from(db[Target].cfg.dwStartType)

(* C14 as stated: after each successful create_service, create_or_get,       *)
(* update_config or set_start_type, get_start_type returns the start type    *)
(* given in that call.                                                       *)
C14_AsStated ==
    /\ op.name \in Writers /\ ret.ok => ReadBack = Ok(op.arg.start_type)
    /\ ReadsStored

(* C14: after each successful create_service, update_config or               *)
(* set_start_type, and after each create_or_get that created the service,    *)
(* get_start_type returns the start type given in that call; after a         *)
(* create_or_get that opened a service that was there, it returns the start  *)
(* type that service had, whatever the config says; and get_start_type       *)
(* itself changes nothing.                                                   *)
C14_StartTypeReadBack ==
    /\ op.name \in Writers /\ ret.ok /\ ~Opened => ReadBack = Ok(op.arg.start_type)
    /\ op.name \in Writers /\ ret.ok /\ Opened =>
          /\ db = op.pre
          /\ ReadBack =
                ServiceStartType_try_from(op.pre[op.arg.service_name].cfg.dwStartType)
    /\ ReadsStored

(* set_start_type(AutoStart) succeeded on a service that update_config had   *)
(* left at DemandStart                                                       *)
C14_Witness ==
    /\ op.name = "set_start_type"
    /\ ret.ok
    /\ op.pre[Target].cfg.dwStartType = SERVICE_DEMAND_START
    /\ op.pre[Target].cfg.lpBinaryPathName = <<2>>
    /\ op.pre[Target].cfg.lpDisplayName = <<1>>
    /\ ReadBack = Ok("AutoStart")

-----------------------------------------------------------------------------
(* Properties of ServiceManager::new and set_privilege (SpecLife) *)

(* C15: new returns a manager only if the privilege is enabled, and a        *)
(* constructor that reached the adjust call without enabling the privilege   *)
(* fails with ServiceManagerError::AccessDenied.                             *)
C15_ManagerOnlyWithPrivilege ==
    /\ op.name = "new" /\ ret.ok => priv
    /\ op.name = "new" /\ CallsOf("AdjustTokenPrivileges") # {} /\ ~priv =>
          /\ ~ret.ok
          /\ ret.family = "ServiceManagerError"
          /\ ret.kind = "AccessDenied"

(* the calls of the last operation that opened the process token *)
TokenOpens == {k \in CallsOf("OpenProcessToken") : calls[k].code = 0}

(* C16: in set_privilege the token handle is closed exactly once on every    *)
(* exit path once the token is opened, as the last call of set_privilege,    *)
(* and nothing is closed when the open fails.                                *)
C16_TokenClosedOnce ==
    op.name = "new" =>
        /\ Cardinality(TokenOpens) <= 1
        /\ Cardinality(CallsOf("CloseHandle")) = Cardinality(TokenOpens)
        /\ \A k \in TokenOpens :
              /\ calls[Len(calls)].api = "CloseHandle"
              /\ calls[Len(calls)].h = calls[k].h

(* the lookup failed after the token was opened, and the token was closed *)
C16_Witness ==
    /\ op.name = "new"
    /\ ~ret.ok
    /\ TokenOpens # {}
    /\ \E k \in CallsOf("LookupPrivilegeValueW") : calls[k].code # 0
    /\ Cardinality(CallsOf("CloseHandle")) = 1

-----------------------------------------------------------------------------
(* Properties of get_config (SpecConfig) *)

(* the error get_config returns for the failed query k, as get_start_type    *)
(* hands it on                                                               *)
QueryFailure(k) ==
    /\ ~ret.ok
    /\ op.name = "get_start_type" =>
          ret = QueryServiceError_from(calls[k].code, "[get_config] QueryServiceConfig failed")

(* C17: get_config first queries with buffer length 0; when that fails with  *)
(* a code other than insufficient buffer it returns the QueryServiceError of *)
(* that code and queries no more; otherwise it queries exactly once more,    *)
(* with a buffer of the byte count the first query reported, and a failure   *)
(* of the second query is returned as the QueryServiceError of its code.     *)
C17_TwoCallProtocol ==
    op.name \in {"get_start_type", "set_start_type"} /\ op.obj # None =>
        /\ calls # <<>>
        /\ calls[1].api = "QueryServiceConfigW"
        /\ calls[1].args.cbBufSize = 0
        /\ calls[1].code \notin {0, ERROR_INSUFFICIENT_BUFFER} =>
              /\ Len(calls) = 1
              /\ QueryFailure(1)
        /\ calls[1].code \in {0, ERROR_INSUFFICIENT_BUFFER} =>
              /\ CallsOf("QueryServiceConfigW") = {1, 2}
              /\ calls[2].args.cbBufSize = ConfigBytes(op.pre[Target].cfg)
              /\ calls[2].code # 0 => Len(calls) = 2 /\ QueryFailure(2)

(* the sizing query reported the size and the second query failed *)
C17_Witness ==
    /\ op.name = "get_start_type"
    /\ Len(calls) = 2
    /\ calls[1].code = ERROR_INSUFFICIENT_BUFFER
    /\ calls[2].args.cbBufSize > ConfigHeaderBytes
    /\ calls[2].code = ERROR_GEN_FAILURE
    /\ ret.family = "QueryServiceError"

-----------------------------------------------------------------------------
(* Properties of the record's string pointers (SpecConfig) *)

(* the record get_config returned to the operation, read again from the      *)
(* database as it was then                                                   *)
RecordRead == get_config([World EXCEPT !.db = op.pre], op.obj, <<0, 0>>).r.val[1]

(* C18: when set_start_type hands the string pointers of the record to the   *)
(* write, the buffer they point into is still allocated, and what the write  *)
(* reads through each of them is the text the query stored there.            *)
C18_PointersLiveAtWrite ==
    op.name = "set_start_type" /\ CallsOf("ChangeServiceConfigW") # {} =>
        /\ RecordRead.buffer = "live"
        /\ \A x \in StringFields :
              calls[Len(calls)].args[x] = Ptr(RecordRead[x])

-----------------------------------------------------------------------------
(* create_or_get beside another client of the service control manager       *)
(* (SpecRace).  create_or_get is two OS round trips, the open of            *)
(* get_service and the create of create_service; the database is shared     *)
(* with every other process, which may act between the two.                 *)

(* the first half of create_or_get: get_service, and its return when the    *)
(* open succeeded                                                           *)
CreateOrGetOpen(m, options) ==
    LET g == get_service(World, m, options.service_name, 0)
    IN  /\ pc = "idle"
        /\ m \in Managers
        /\ FreeIds(h) # {}
        /\ Commit([g EXCEPT !.r = IF g.r.ok THEN g.r ELSE Pending], Owned(g))
        /\ op' = Called("create_or_get", m, options)
        /\ pc' = IF g.r.ok THEN "idle" ELSE "create"
        /\ UNCHANGED observed

(* the second half: create_service, after the open failed *)
CreateOrGetCreate(f) ==
    LET x == create_service(Running, op.obj, op.arg, f)
    IN  /\ pc = "create"
        /\ Commit(x, Owned(x))
        /\ pc' = "idle"
        /\ UNCHANGED <<op, observed>>

(* another client of the SCM creates the service `name` *)
OtherClientCreates(name) ==
    /\ ~db[name].exists
    /\ db' = [db EXCEPT ![name] = Preexisting]
    /\ UNCHANGED <<h, lastError, priv, op, ret, calls, pc, observed>>

NextRace ==
    \/ \E f \in NewFaults : NoManagerYet /\ New(f)
    \/ \E s \in Managers \cup Handles : Drop(s)
    \/ \E m \in Managers, o \in SmallOptions : CreateOrGetOpen(m, o)
    \/ \E f \in Faults : CreateOrGetCreate(f)
    \/ \E n \in DbNames : OtherClientCreates(n)

SpecRace == Init /\ [][NextRace]_vars

(* C19: a create_or_get that returned did not fail with                      *)
(* CreateServiceError::ServiceExists, whatever another client did between    *)
(* its open and its create.                                                  *)
C19_NeverServiceExists ==
    op.name = "create_or_get" /\ pc = "idle" /\ ~ret.ok =>
        ~(ret.family = "CreateServiceError" /\ ret.kind = "ServiceExists")

=============================================================================
